---- MODULE Spec2Model ----
(***************************************************************************)
(* A model of the LG TV firmware-downgrade utility: the firmware           *)
(* classifier (FirmwareDatabase), the firmware cache lookup                *)
(* (FirmwareFinder), the USB stager (USBPrepper.prepare_firmware), the     *)
(* destructive format operation (USBPrepper.format_drive), the remote      *)
(* command helper (SSHHelper), the network sweeps and discovery            *)
(* (SSHConnectionWizard.scan_network, TVDiscovery), the command line with  *)
(* its interactive wizard (lgtv_downgrade.main, LGTVDowngrader), the       *)
(* firmware file check (FirmwareFinder.verify_firmware) and the window     *)
(* with its button callbacks (gui.LGTVDowngradeGUI).                       *)
(*                                                                         *)
(* Python strings are sequences of one-character strings, so that          *)
(* startswith, rstrip, upper and regular-expression matching are computed  *)
(* character by character as the library computes them.                    *)
(***************************************************************************)
EXTENDS Integers, Sequences, FiniteSets, TLC

VARIABLES
    \* ---- FirmwareDatabase / gui.check_firmware
    dbOp,            \* the last classifier operation run ("none" at start)
    version,         \* its argument
    classification,  \* what check_firmware displayed
    recommended,     \* what recommend_firmware returned (None when not called)
    \* ---- USBPrepper.prepare_firmware
    fs,              \* the filesystem: path -> node
    usbOp,           \* the last stager call: its arguments, result and log
    fsBefore,        \* the filesystem when that call started
    \* ---- USBPrepper.format_drive
    fmtOp,           \* the last format_drive call: input, platform, result
    commands,        \* the external commands that call ran, in order
    volume,          \* the volume: whether mounted, whether erased
    system,          \* platform.system() of the host
    \* ---- FirmwareFinder
    cache,           \* the cache directory's listing, in directory order
    findOp,          \* the last finder call: its arguments and result
    printed,         \* what the call printed: "none" or the guidance record
    netRequests,     \* the number of network requests issued so far
    \* ---- SSHHelper
    helper,          \* the attributes of the SSHHelper object
    sshOp,           \* the last method called on it: outcome, ssh runs, result
    \* ---- SSHConnectionWizard.scan_network / TVDiscovery._scan_ports
    sweep,           \* the sweep in progress: position, probes made, hits
    \* ---- TVDiscovery.discover
    lan,             \* what the discovery tools and the local hosts answer
    discOp,          \* the last discover call: what each method found, result
    \* ---- lgtv_downgrade.main and the wizard
    cliOp,           \* the invocation: arguments, position, calls made, exit
    \* ---- FirmwareFinder.verify_firmware
    verifyOp,        \* the last verify_firmware call: path, file, result
    \* ---- gui.LGTVDowngradeGUI
    gui              \* the window: fields, status bar, callbacks running, events

dbVars == <<dbOp, version, classification, recommended>>
usbVars == <<fs, usbOp, fsBefore>>
fmtVars == <<fmtOp, commands, volume>>
findVars == <<cache, findOp, printed, netRequests>>
sshVars == <<helper, sshOp>>
scanVars == <<sweep>>
discVars == <<lan, discOp>>
cliVars == <<cliOp>>
netVars == <<sshVars, scanVars, discVars, cliVars>>
uiVars == <<verifyOp, gui>>
vars == <<dbVars, usbVars, fmtVars, findVars, system, netVars, uiVars>>

\* Python's None where a string or a path is expected: no string of characters
None == <<"None">>

(***************************************************************************)
(* Python string primitives                                                *)
(***************************************************************************)

\* str.startswith
StartsWith(s, p) ==
    /\ Len(p) <= Len(s)
    /\ SubSeq(s, 1, Len(p)) = p

\* str.endswith
EndsWith(s, p) ==
    /\ Len(p) <= Len(s)
    /\ SubSeq(s, Len(s) - Len(p) + 1, Len(s)) = p

\* str.rstrip(c): every trailing occurrence of the character c removed
RECURSIVE RStrip(_, _)
RStrip(s, c) ==
    IF s # <<>> /\ s[Len(s)] = c THEN RStrip(SubSeq(s, 1, Len(s) - 1), c) ELSE s

\* the characters str.upper changes, for the letters the model's strings use
UpperChar(c) ==
    CASE c = "a" -> "A" [] c = "e" -> "E" [] c = "f" -> "F" [] c = "g" -> "G"
      [] c = "k" -> "K" [] c = "l" -> "L" [] c = "p" -> "P" [] c = "u" -> "U"
      [] c = "w" -> "W" [] c = "x" -> "X" [] OTHER -> c

\* str.upper
Upper(s) == [i \in 1..Len(s) |-> UpperChar(s[i])]

\* s contains sub at some position
Contains(s, sub) ==
    \E i \in 0..(Len(s) - Len(sub)) : SubSeq(s, i + 1, i + Len(sub)) = sub

(***************************************************************************)
(* FirmwareDatabase                                                        *)
(***************************************************************************)

V_4_x_x == <<"4", ".", "x", ".", "x">>
V_03_21_30 == <<"0", "3", ".", "2", "1", ".", "3", "0">>
V_03_20_14 == <<"0", "3", ".", "2", "0", ".", "1", "4">>
V_03_21_40 == <<"0", "3", ".", "2", "1", ".", "4", "0">>
V_05_00_00 == <<"0", "5", ".", "0", "0", ".", "0", "0">>
V_05_10_00 == <<"0", "5", ".", "1", "0", ".", "0", "0">>
V_05_20_00 == <<"0", "5", ".", "2", "0", ".", "0", "0">>
V_06_00_00 == <<"0", "6", ".", "0", "0", ".", "0", "0">>
V_06_10_00 == <<"0", "6", ".", "1", "0", ".", "0", "0">>
V_03_30_10 == <<"0", "3", ".", "3", "0", ".", "1", "0">>
V_03_30_14 == <<"0", "3", ".", "3", "0", ".", "1", "4">>
V_03_40_xx == <<"0", "3", ".", "4", "0", ".", "x", "x">>

\* ROOTABLE_FIRMWARE: the value lists of the dictionary, one per webOS line
ROOTABLE_FIRMWARE ==
    << <<V_4_x_x, V_03_21_30, V_03_20_14, V_03_21_40>>,
       <<V_05_00_00, V_05_10_00, V_05_20_00>>,
       <<V_06_00_00, V_06_10_00>> >>

\* PATCHED_FIRMWARE
PATCHED_FIRMWARE == <<V_03_30_10, V_03_30_14, V_03_40_xx>>

Range(seq) == {seq[i] : i \in 1..Len(seq)}

\* is_rootable: version is an element of one of the lists
is_rootable(v) ==
    \E i \in 1..Len(ROOTABLE_FIRMWARE) : v \in Range(ROOTABLE_FIRMWARE[i])

\* is_patched: version.startswith(patched.rstrip('x')) for some entry
is_patched(v) ==
    \E i \in 1..Len(PATCHED_FIRMWARE) :
        StartsWith(v, RStrip(PATCHED_FIRMWARE[i], "x"))

\* a slip: the fallback forgotten, the input handed back
recommend_firmware_echo(v) == v

\* a slip: the fallback written without its leading zero
recommend_firmware_unpadded(v) ==
    IF is_rootable(v) THEN v ELSE <<"3", ".", "2", "1", ".", "3", "0">>

\* recommend_firmware
recommend_firmware(v) ==
    IF is_rootable(v) THEN v ELSE V_03_21_30

\* the classification gui.check_firmware displays
Classify(v) ==
    IF is_rootable(v) THEN "rootable"
    ELSE IF is_patched(v) THEN "patched"
    ELSE "unknown"

(***************************************************************************)
(* The version strings the classifier is run on: every table entry, every  *)
(* entry cut short by up to MaxCut characters, and every entry extended by *)
(* up to MaxExtra characters.                                              *)
(***************************************************************************)
MaxExtra == 1
MaxCut == 1

ExtChars == {"0", "1", "x", "X", "."}

TableEntries ==
    UNION {Range(ROOTABLE_FIRMWARE[i]) : i \in 1..Len(ROOTABLE_FIRMWARE)}
        \cup Range(PATCHED_FIRMWARE)

Suffixes == UNION {[1..n -> ExtChars] : n \in 0..MaxExtra}

Versions ==
    {e \o s : e \in TableEntries, s \in Suffixes}
        \cup {SubSeq(e, 1, Len(e) - k) : e \in TableEntries, k \in 0..MaxCut}

(***************************************************************************)
(* The classifier's operations                                             *)
(***************************************************************************)

DbIdle ==
    /\ dbOp = "none"
    /\ version = <<>>
    /\ classification = "none"
    /\ recommended = None

\* gui.check_firmware: classify, and recommend a target when patched
check_firmware(v) ==
    /\ dbOp' = "check_firmware"
    /\ version' = v
    /\ classification' = Classify(v)
    /\ recommended' = IF Classify(v) = "patched" THEN recommend_firmware(v) ELSE None
    /\ UNCHANGED <<usbVars, fmtVars, findVars, system, uiVars, netVars>>

\* FirmwareDatabase.recommend_firmware called on its own
call_recommend_firmware(v) ==
    /\ dbOp' = "recommend_firmware"
    /\ version' = v
    /\ classification' = "none"
    /\ recommended' = recommend_firmware(v)
    /\ UNCHANGED <<usbVars, fmtVars, findVars, system, uiVars, netVars>>

(***************************************************************************)
(* The filesystem USBPrepper.prepare_firmware works on.  A path is the     *)
(* sequence of its components; fs maps every existing path to its node, a  *)
(* directory or a regular file with its bytes.                             *)
(***************************************************************************)

Dir == [kind |-> "dir", data |-> <<>>]
File(d) == [kind |-> "file", data |-> d]

\* os.path.exists / Path.exists
Exists(f, p) == p \in DOMAIN f
\* os.path.isdir
IsDir(f, p) == Exists(f, p) /\ f[p].kind = "dir"
IsFile(f, p) == Exists(f, p) /\ f[p].kind = "file"

\* os.path.join(p, name)
Join(p, name) == Append(p, name)
\* Path(p).name, os.path.basename(p)
Name(p) == p[Len(p)]
Parent(p) == SubSeq(p, 1, Len(p) - 1)

\* p is q or lies below q
Under(p, q) == StartsWith(p, q)

\* f with node n at path p
Put(f, p, n) == [q \in DOMAIN f \cup {p} |-> IF q = p THEN n ELSE f[q]]

\* os.makedirs(p, exist_ok=True): the resulting filesystem and whether it raised.
\* Missing ancestors are created first (the root, the empty path, is always
\* there); an existing directory is accepted, a
\* regular file at p or at an ancestor raises (FileExistsError,
\* NotADirectoryError); denied is an OSError of the environment (read-only
\* volume, permissions) raised when a directory has to be created.
RECURSIVE MakeDirs(_, _, _)
MakeDirs(f, p, denied) ==
    IF p = <<>> \/ IsDir(f, p) THEN [fs |-> f, cause |-> "ok"]
    ELSE IF IsFile(f, p) THEN [fs |-> f, cause |-> "FileExistsError"]
    ELSE LET up == MakeDirs(f, Parent(p), denied) IN
         IF up.cause # "ok"
         THEN [fs |-> f,
               cause |-> IF up.cause = "FileExistsError"
                         THEN "NotADirectoryError" ELSE up.cause]
         ELSE IF denied THEN [fs |-> up.fs, cause |-> "PermissionError"]
         ELSE [fs |-> Put(up.fs, p, Dir), cause |-> "ok"]

\* What the environment can do to a copy of data: let it through, refuse to
\* open the destination, run out of space after n bytes, or fail on the
\* metadata copy once every byte is written.
CopyFaults(data) ==
    {[kind |-> "ok", n |-> Len(data)],
     [kind |-> "PermissionError", n |-> 0],
     [kind |-> "copystat", n |-> Len(data)]}
        \cup {[kind |-> "ENOSPC", n |-> k] : k \in 0..(Len(data) - 1)}

\* the errors of the environment: permissions, a full disk, the metadata copy
EnvironmentCauses == {"PermissionError", "ENOSPC", "copystat"}

\* shutil.copy2(src, dst): a directory dst stands for dst/basename(src);
\* copyfile refuses the same file, opens src (which must be a regular file),
\* opens and truncates the target, writes, and copystat follows.
Copy2(f, src, dst, fault) ==
    LET target == IF IsDir(f, dst) THEN Join(dst, Name(src)) ELSE dst IN
    IF Exists(f, src) /\ src = target THEN [fs |-> f, cause |-> "SameFileError"]
    ELSE IF ~Exists(f, src) THEN [fs |-> f, cause |-> "FileNotFoundError"]
    ELSE IF IsDir(f, src) THEN [fs |-> f, cause |-> "IsADirectoryError"]
    ELSE IF IsDir(f, target) THEN [fs |-> f, cause |-> "IsADirectoryError"]
    ELSE IF ~IsDir(f, Parent(target)) THEN [fs |-> f, cause |-> "FileNotFoundError"]
    ELSE IF fault.kind = "PermissionError" THEN [fs |-> f, cause |-> fault.kind]
    ELSE [fs |-> Put(f, target, File(SubSeq(f[src].data, 1, fault.n))),
          cause |-> fault.kind]

(***************************************************************************)
(* USBPrepper.prepare_firmware                                             *)
(***************************************************************************)

\* Path(firmware_path).exists()
FirmwareExists(f, firmware_path) == Exists(f, firmware_path)

\* a slip: the volume taken to be there
UsbPathAssumed(f, usb_path) == TRUE

\* os.path.exists(self.usb_path)
UsbPathExists(f, usb_path) == Exists(f, usb_path)

\* lg_dtv_path = os.path.join(self.usb_path, "LG_DTV")
LgDtvPath(usb_path) == Join(usb_path, "LG_DTV")

\* a slip: the firmware put at the volume's root
DestPathAtRoot(lg_dtv_path, firmware_path) ==
    Join(Parent(lg_dtv_path), Name(firmware_path))

\* a slip: the firmware staged under a fixed name
DestPathFixedName(lg_dtv_path, firmware_path) == Join(lg_dtv_path, "firmware.epk")

\* dest_path = os.path.join(lg_dtv_path, Path(firmware_path).name)
DestPath(lg_dtv_path, firmware_path) == Join(lg_dtv_path, Name(firmware_path))

\* a slip: the copy appended to what the destination already holds
StageCopyAppend(f, src, dst, fault) ==
    LET r == Copy2(f, src, dst, fault) IN
    IF IsFile(f, dst) /\ IsFile(r.fs, dst)
    THEN [r EXCEPT !.fs = Put(r.fs, dst, File(f[dst].data \o r.fs[dst].data))]
    ELSE r

\* shutil.copy2(firmware_path, dest_path) as prepare_firmware calls it
StageCopy(f, src, dst, fault) == Copy2(f, src, dst, fault)

\* _print_summary(dest_path): the name and the size it prints (the size of a
\* directory is the filesystem's own and is left at 0)
Summary(f, dest_path) ==
    [printed |-> TRUE, name |-> Name(dest_path),
     size |-> IF IsFile(f, dest_path) THEN Len(f[dest_path].data) ELSE 0]
NoSummary == [printed |-> FALSE, name |-> "", size |-> 0]

LogLine(msg, cause) == [msg |-> msg, cause |-> cause]

\* The outcome of prepare_firmware(firmware_path) on a USBPrepper(usb_path):
\* the filesystem it leaves, its return value, its log and its summary.
PrepareOutcome(f, firmware_path, usb_path, denied, fault) ==
    LET lg_dtv_path == LgDtvPath(usb_path)
        dest_path == DestPath(lg_dtv_path, firmware_path)
        made == MakeDirs(f, lg_dtv_path, denied)
        copied == StageCopy(made.fs, firmware_path, dest_path, fault)
    IN
    IF ~FirmwareExists(f, firmware_path)
    THEN [fs |-> f, result |-> FALSE, summary |-> NoSummary,
          log |-> <<LogLine("Firmware not found", "")>>]
    ELSE IF ~UsbPathExists(f, usb_path)
    THEN [fs |-> f, result |-> FALSE, summary |-> NoSummary,
          log |-> <<LogLine("USB path not found", "")>>]
    ELSE IF made.cause # "ok"
    THEN [fs |-> made.fs, result |-> FALSE, summary |-> NoSummary,
          log |-> <<LogLine("Failed to create LG_DTV folder", made.cause)>>]
    ELSE IF copied.cause # "ok"
    THEN [fs |-> copied.fs, result |-> FALSE, summary |-> NoSummary,
          log |-> <<LogLine("Created LG_DTV folder", ""),
                    LogLine("Failed to copy firmware", copied.cause)>>]
    ELSE IF ~Exists(copied.fs, dest_path)
    THEN [fs |-> copied.fs, result |-> FALSE, summary |-> NoSummary,
          log |-> <<LogLine("Created LG_DTV folder", ""),
                    LogLine("Copied firmware", ""),
                    LogLine("Verification failed - file not copied", "")>>]
    ELSE [fs |-> copied.fs, result |-> TRUE,
          summary |-> Summary(copied.fs, dest_path),
          log |-> <<LogLine("Created LG_DTV folder", ""),
                    LogLine("Copied firmware", ""),
                    LogLine("USB drive prepared successfully", "")>>]

\* The bytes a copy of firmware_path would read
SourceData(f, firmware_path) ==
    IF IsFile(f, firmware_path) THEN f[firmware_path].data ELSE <<>>

\* One call of USBPrepper(usb_path).prepare_firmware(firmware_path)
prepare_firmware(firmware_path, usb_path) ==
    \E denied \in BOOLEAN, fault \in CopyFaults(SourceData(fs, firmware_path)) :
    \E out \in {PrepareOutcome(fs, firmware_path, usb_path, denied, fault)} :
        /\ fs' = out.fs
        /\ fsBefore' = fs
        /\ usbOp' = [called |-> TRUE,
                     firmware_path |-> firmware_path,
                     usb_path |-> usb_path,
                     result |-> out.result,
                     log |-> out.log,
                     summary |-> out.summary,
                     sameAsPrev |-> /\ usbOp.called
                                    /\ usbOp.firmware_path = firmware_path
                                    /\ usbOp.usb_path = usb_path,
                     prevResult |-> usbOp.called /\ usbOp.result,
                     prevClean |-> /\ usbOp.called
                                   /\ \A i \in 1..Len(usbOp.log) :
                                          usbOp.log[i].cause \notin EnvironmentCauses]
        /\ UNCHANGED <<dbVars, fmtVars, findVars, system, uiVars, netVars>>

(***************************************************************************)
(* The filesystems and arguments the stager is run on.  File contents are  *)
(* byte strings of up to MaxSize bytes.                                    *)
(***************************************************************************)
MaxSize == 2

Bytes == {0, 1}
Contents == UNION {[1..n -> Bytes] : n \in 0..MaxSize}

P_fw == <<"fw">>
P_src == <<"fw", "a.epk">>
P_usb == <<"usb">>
P_mnt == <<"mnt">>
P_keep == <<"usb", "notes.txt">>
P_lg == <<"usb", "LG_DTV">>
P_old == <<"usb", "LG_DTV", "old.epk">>
P_dest == <<"usb", "LG_DTV", "a.epk">>
P_inner == <<"usb", "LG_DTV", "a.epk", "a.epk">>

Absent == [kind |-> "absent", data |-> <<>>]
Nodes == {Absent, Dir} \cup {File(d) : d \in Contents}

\* the filesystem holding the given nodes, a node only where its parent is a
\* directory
FsOf(layout) ==
    LET here(p) == layout[p].kind # "absent"
        RECURSIVE ok(_)
        ok(p) == IF Len(p) = 0 THEN TRUE
                 ELSE /\ here(p)
                      /\ \/ Len(p) = 1
                         \/ /\ Parent(p) \in DOMAIN layout
                            /\ layout[Parent(p)].kind = "dir"
                            /\ ok(Parent(p))
    IN [p \in {q \in DOMAIN layout : ok(q)} |-> layout[p]]

\* the host's firmware directory with or without the firmware file; the volume
\* a directory or a regular file, with or without foreign files (a file at its
\* root, an older firmware in LG_DTV), LG_DTV, and something already at the
\* destination path
Layouts ==
    {[p \in {P_fw, P_src, P_usb, P_keep, P_lg, P_old, P_dest, P_inner} |->
        CASE p = P_fw -> Dir
          [] p = P_src -> src
          [] p = P_usb -> usb
          [] p = P_keep -> IF foreign THEN File(<<1>>) ELSE Absent
          [] p = P_lg -> lg
          [] p = P_old -> IF foreign THEN File(<<0>>) ELSE Absent
          [] p = P_dest -> dest
          [] p = P_inner -> inner] :
        src \in {Absent} \cup {File(d) : d \in Contents},
        usb \in {Dir, File(<<>>)},
        foreign \in BOOLEAN,
        lg \in {Absent, Dir, File(<<>>)},
        dest \in Nodes,
        inner \in {Absent} \cup {File(d) : d \in Contents}}

InitFilesystems == {FsOf(l) : l \in Layouts}

FirmwarePaths == {P_src, P_fw, P_dest}
UsbPaths == {P_usb, P_mnt}


(***************************************************************************)
(* USBPrepper.format_drive                                                 *)
(***************************************************************************)

\* what running an external command can come to: exit status 0, a non-zero
\* exit status, or no such executable
Outcomes == {"ok", "nonzero", "notfound"}

\* a slip: the confirmation compared without regard to case
ConfirmedAnyCase(confirm) == confirm \in {"YES", "Yes", "yes"}

\* confirm != 'YES' is what cancels
Confirmed(confirm) == confirm = "YES"

Command(tool, target, options) ==
    [tool |-> tool, target |-> target, options |-> options]

\* subprocess.run(..., check=True) inside try/except CalledProcessError
Checked(outcome) ==
    CASE outcome = "ok" -> "True"
      [] outcome = "nonzero" -> "False"
      [] OTHER -> "raise FileNotFoundError"

Erased(vol, fstype) == [vol EXCEPT !.erased = TRUE, !.fstype = fstype]

\* _format_windows: format <drive without trailing backslashes> /FS:<type> /Q /Y
FormatWindows(vol, drive, fs_type, out) ==
    [commands |-> <<Command("format", RStrip(drive, "\\"),
                            <<"/FS:", fs_type, "/Q", "/Y">>)>>,
     volume |-> IF out = "ok" THEN Erased(vol, fs_type) ELSE vol,
     result |-> Checked(out)]

\* _format_linux: umount (its exit status ignored), then mkfs.vfat or mkfs.ntfs
FormatLinux(vol, device, fs_type, umountOut, out) ==
    LET fstype == IF fs_type = "FAT32" THEN "vfat" ELSE "ntfs"
        umount == Command("umount", device, <<>>)
        unmounted == IF umountOut = "ok" THEN [vol EXCEPT !.mounted = FALSE] ELSE vol
    IN
    IF umountOut = "notfound"
    THEN [commands |-> <<umount>>, volume |-> vol,
          result |-> "raise FileNotFoundError"]
    ELSE [commands |-> <<umount, Command("mkfs", device, <<fstype>>)>>,
          volume |-> IF out = "ok" THEN Erased(unmounted, fstype) ELSE unmounted,
          result |-> Checked(out)]

\* _format_macos: diskutil eraseDisk <type> LGTVDOWN <device>
FormatMacos(vol, device, fs_type, out) ==
    [commands |-> <<Command("diskutil", device, <<"eraseDisk", fs_type, "LGTVDOWN">>)>>,
     volume |-> IF out = "ok" THEN Erased(vol, fs_type) ELSE vol,
     result |-> Checked(out)]

\* One call of USBPrepper.format_drive(usb_path, fs_type) with confirm typed
format_drive(usb_path, fs_type, confirm) ==
    \E umountOut \in Outcomes, out \in Outcomes :
        LET done ==
                IF ~Confirmed(confirm)
                THEN [commands |-> <<>>, volume |-> volume, result |-> "False"]
                ELSE IF system = "Windows"
                THEN FormatWindows(volume, usb_path, fs_type, out)
                ELSE IF system = "Linux"
                THEN FormatLinux(volume, usb_path, fs_type, umountOut, out)
                ELSE IF system = "Darwin"
                THEN FormatMacos(volume, usb_path, fs_type, out)
                ELSE [commands |-> <<>>, volume |-> volume, result |-> "False"]
        IN
        /\ commands' = done.commands
        /\ volume' = done.volume
        /\ fmtOp' = [called |-> TRUE, usb_path |-> usb_path, fs_type |-> fs_type,
                     confirm |-> confirm, result |-> done.result,
                     log |-> IF ~Confirmed(confirm) THEN "Format cancelled"
                             ELSE IF system \in {"Windows", "Linux", "Darwin"}
                             THEN "Formatting"
                             ELSE "Unsupported platform",
                     volumeBefore |-> volume]
        /\ UNCHANGED <<dbVars, usbVars, findVars, system, uiVars, netVars>>

Systems == {"Windows", "Linux", "Darwin", "FreeBSD"}
Confirmations == {"YES", "Yes", "yes", "Y", "y", "", "NO", " YES", "YES "}
FsTypes == {"FAT32", "NTFS", "exFAT"}
FormatTargets ==
    {<<"E", ":", "\\">>, <<"E", ":">>, <<"/", "d", "e", "v", "/", "s", "d", "b", "1">>}

FreshVolume == [mounted |-> TRUE, erased |-> FALSE, fstype |-> "FAT32"]

(***************************************************************************)
(* FirmwareFinder.  The cache directory is its listing: the names of its   *)
(* entries in the order the directory yields them.                         *)
(***************************************************************************)

\* str.replace(sub, ""): every occurrence of sub removed, left to right
RECURSIVE RemoveAll(_, _)
RemoveAll(s, sub) ==
    IF s = <<>> THEN <<>>
    ELSE IF StartsWith(s, sub) THEN RemoveAll(SubSeq(s, Len(sub) + 1, Len(s)), sub)
    ELSE <<s[1]>> \o RemoveAll(Tail(s), sub)

\* the character class [A-Z0-9]
UpperAlnum ==
    {"0", "1", "2", "3", "4", "5", "6", "7", "8", "9",
     "A", "B", "C", "D", "E", "F", "G", "H", "I", "J", "K", "L", "M",
     "N", "O", "P", "Q", "R", "S", "T", "U", "V", "W", "X", "Y", "Z"}

\* the bounds of the repetition in ([A-Z0-9]{6,15})
MinBase == 6
MaxBase == 15

\* _extract_model_base on self.tv_model (already upper-cased): the LG- and LG
\* prefixes removed, then the leading run of 6 to 15 characters of [A-Z0-9]
\* when there is one, else the whole string
extract_model_base(tv_model) ==
    LET model == RemoveAll(RemoveAll(tv_model, <<"L", "G", "-">>), <<"L", "G">>)
        runs == {n \in 0..MaxBase :
                    n <= Len(model) /\ \A i \in 1..n : model[i] \in UpperAlnum}
        run == CHOOSE n \in runs : \A m \in runs : m <= n
    IN IF run >= MinBase THEN SubSeq(model, 1, run) ELSE model

\* a slip: the dots of the version left unescaped
EscapeNothing(v) == v

\* target_version.replace(".", r"\."): a backslash put before every dot
RECURSIVE EscapeDots(_)
EscapeDots(v) ==
    IF v = <<>> THEN <<>>
    ELSE (IF v[1] = "." THEN <<"\\", ".">> ELSE <<v[1]>>) \o EscapeDots(Tail(v))

\* rf'.*{escaped version}\.epk'
PatternSource(target_version) ==
    <<".", "*">> \o EscapeDots(target_version) \o <<"\\", ".", "e", "p", "k">>

\* re.compile for the syntax such a pattern uses: an escaped character is
\* that character, .* is any run of characters, a bare dot is any character,
\* a letter or a digit is itself
Lit(c) == [t |-> "lit", c |-> c]
AnyChar == [t |-> "any", c |-> ""]
AnyStar == [t |-> "anystar", c |-> ""]

RECURSIVE Compile(_)
Compile(src) ==
    IF src = <<>> THEN <<>>
    ELSE IF src[1] = "\\" /\ Len(src) >= 2
    THEN <<Lit(src[2])>> \o Compile(SubSeq(src, 3, Len(src)))
    ELSE IF src[1] = "." /\ Len(src) >= 2 /\ src[2] = "*"
    THEN <<AnyStar>> \o Compile(SubSeq(src, 3, Len(src)))
    ELSE IF src[1] = "." THEN <<AnyChar>> \o Compile(Tail(src))
    ELSE <<Lit(src[1])>> \o Compile(Tail(src))

\* pattern.match(name) under re.IGNORECASE: anchored at the start of the name
\* only, so the pattern may end before the name does
RECURSIVE ReMatch(_, _)
ReMatch(tokens, name) ==
    IF tokens = <<>> THEN TRUE
    ELSE IF tokens[1].t = "anystar"
    THEN \E k \in 0..Len(name) : ReMatch(Tail(tokens), SubSeq(name, k + 1, Len(name)))
    ELSE /\ name # <<>>
         /\ \/ tokens[1].t = "any"
            \/ UpperChar(tokens[1].c) = UpperChar(name[1])
         /\ ReMatch(Tail(tokens), Tail(name))

DotEpk == <<".", "e", "p", "k">>

\* firmware_dir.glob("*.epk"): the entries whose name ends in .epk, the case
\* of the name ignored on Windows only
InGlob(name, sys) ==
    IF sys = "Windows" THEN EndsWith(Upper(name), Upper(DotEpk))
    ELSE EndsWith(name, DotEpk)

\* str(file) for an entry of the cache directory
CachePath(name) == <<"firmware/">> \o name

\* _check_cache: the first globbed entry, in directory order, that the pattern
\* matches; None when there is none
RECURSIVE check_cache(_, _, _)
check_cache(listing, target_version, sys) ==
    IF listing = <<>> THEN None
    ELSE IF /\ InGlob(listing[1], sys)
            /\ ReMatch(Compile(PatternSource(target_version)), listing[1])
    THEN CachePath(listing[1])
    ELSE check_cache(Tail(listing), target_version, sys)

NoGuidance ==
    [guidance |-> FALSE, tv_model |-> <<>>, target_version |-> <<>>,
     model_base |-> <<>>]

\* _provide_manual_instructions: prints the guide, returns None
provide_manual_instructions(tv_model, target_version, model_base) ==
    [result |-> None,
     printed |-> [guidance |-> TRUE, tv_model |-> tv_model,
                  target_version |-> target_version, model_base |-> model_base],
     requests |-> 0]

\* a slip: the cache never consulted
find_without_cache(listing, tv_model, target_version, sys) ==
    provide_manual_instructions(tv_model, target_version,
                                extract_model_base(tv_model))

\* find_and_download on a FirmwareFinder whose tv_model is upper-cased
find_and_download(listing, tv_model, target_version, sys) ==
    LET cached == check_cache(listing, target_version, sys) IN
    IF cached # None /\ cached # <<>>
    THEN [result |-> cached, printed |-> NoGuidance, requests |-> 0]
    ELSE provide_manual_instructions(tv_model, target_version,
                                     extract_model_base(tv_model))

\* a slip: the cache directory made afresh by the constructor
firmware_dir_recreate(c) == [exists |-> TRUE, listing |-> <<>>]

\* self.firmware_dir.mkdir(exist_ok=True): the directory is created when it
\* is not there, and left as it is when it is
firmware_dir_mkdir(c) == [c EXCEPT !.exists = TRUE]

\* FirmwareFinder(tv_model, target_version).find_and_download(): the
\* constructor upper-cases the model and creates the cache directory when it
\* is not there.  The record of the call says whether the call before it
\* asked for the same version of the same listing, and what that call returned.
find_firmware(tv_model, target_version) ==
    \E out \in {find_and_download(cache.listing, Upper(tv_model), target_version,
                                   system)} :
    \E same \in {/\ findOp.called
                  /\ findOp.target_version = target_version
                  /\ findOp.cacheBefore.listing = cache.listing} :
    /\ cache' = firmware_dir_mkdir(cache)
    /\ findOp' = [called |-> TRUE, tv_model |-> tv_model,
                  target_version |-> target_version, result |-> out.result,
                  cacheBefore |-> cache,
                  sameAsPrev |-> same,
                  prevResult |-> IF same THEN findOp.result ELSE None]
    /\ printed' = out.printed
    /\ netRequests' = netRequests + out.requests
    /\ UNCHANGED <<dbVars, usbVars, fmtVars, system, uiVars, netVars>>

(***************************************************************************)
(* The caches and arguments the finder is run on: up to MaxFiles entries   *)
(***************************************************************************)
MaxFiles == 2

V_4_X_X == <<"4", ".", "X", ".", "X">>
TargetVersions == {V_03_21_30, V_4_x_x, V_4_X_X}

TvModels ==
    {<<"l", "g", "-", "4", "3", "u", "p", "7", "5">>,
     <<"4", "3", "U", "P", "7", "-", "5", "L", "G">>,
     <<"L", "G", "L", "G">>}

CacheNames ==
    {V_03_21_30 \o DotEpk,
     <<"f", "w", "_">> \o V_03_21_30 \o DotEpk,
     V_03_21_30 \o <<"_", "v", "2">> \o DotEpk,
     V_03_21_30 \o <<".", "E", "P", "K">>,
     <<"0", "3", "x", "2", "1", "x", "3", "0">> \o DotEpk,
     V_03_21_30 \o DotEpk \o <<".", "b", "a", "k">>,
     V_03_21_30 \o DotEpk \o <<".", "o", "l", "d">> \o DotEpk,
     V_03_21_40 \o DotEpk,
     V_4_x_x \o DotEpk,
     <<"4", ".", "x", ".", "x", "a">> \o DotEpk}

\* the listings of up to MaxFiles entries, no name twice
Listings ==
    UNION {{l \in [1..n -> CacheNames] : \A i, j \in 1..n : l[i] = l[j] => i = j} :
              n \in 0..MaxFiles}

(***************************************************************************)
(* SSHHelper.  Python values: a str is the sequence of its characters,     *)
(* None, True and False are one-element sequences no str is equal to.      *)
(***************************************************************************)
PyTrue == <<"True">>
PyFalse == <<"False">>

\* bool(v) for the values the helper returns
Truthy(v) == v \notin {None, PyFalse, <<>>}

\* the characters str.lower changes, for the letters the model's strings use
LowerChar(c) ==
    CASE c = "D" -> "d" [] c = "E" -> "e" [] c = "V" -> "v" [] c = "L" -> "l"
      [] c = "O" -> "o" [] c = "P" -> "p" [] c = "R" -> "r" [] c = "Y" -> "y"
      [] c = "K" -> "k"
      [] OTHER -> c

\* str.lower
Lower(s) == [i \in 1..Len(s) |-> LowerChar(s[i])]

SSH_PORT == 9922
CONNECT_TIMEOUT == 5
COMMAND_TIMEOUT == 30

\* SSHHelper(tv_ip): the attributes the constructor sets
SSHHelper(tv_ip) == [tv_ip |-> tv_ip, port |-> SSH_PORT, user |-> "prisoner"]

\* what the TCP connect of test_connection can come to: the port accepts, the
\* port refuses, nothing answers within the timeout, the address does not
\* resolve, or the socket fails in some other way
ConnectOutcomes == {"connected", "refused", "timeout", "gaierror", "error"}

\* socket.socket(); settimeout(5); connect_ex((tv_ip, port)): the error number
\* it returns, or the exception it raises
connect_ex(outcome) ==
    CASE outcome = "connected" -> [raised |-> "none", errno |-> "0"]
      [] outcome = "refused" -> [raised |-> "none", errno |-> "ECONNREFUSED"]
      [] outcome = "timeout" -> [raised |-> "none", errno |-> "EAGAIN"]
      [] outcome = "gaierror" -> [raised |-> "socket.gaierror", errno |-> ""]
      [] OTHER -> [raised |-> "OSError", errno |-> ""]

\* a TCP connect to (ip, port), as the network sees it
Probe(h, outcome) ==
    [ip |-> h.tv_ip, port |-> h.port, timeout |-> CONNECT_TIMEOUT,
     outcome |-> outcome]

\* a slip: only the resolver's error caught
test_connection_unguarded(h, outcome) ==
    LET c == connect_ex(outcome) IN
    [probes |-> <<Probe(h, outcome)>>, runs |-> <<>>,
     result |-> IF c.raised = "none" /\ c.errno = "0" THEN PyTrue
                ELSE IF c.raised \in {"none", "socket.gaierror"} THEN PyFalse
                ELSE None,
     raised |-> IF c.raised \in {"none", "socket.gaierror"} THEN "none"
                ELSE c.raised,
     log |-> ""]

\* test_connection: True when connect_ex returned 0; False when it returned
\* anything else or when it, or the socket's creation, raised
test_connection(h, outcome) ==
    LET c == connect_ex(outcome) IN
    [probes |-> <<Probe(h, outcome)>>, runs |-> <<>>,
     result |-> IF c.raised = "none" /\ c.errno = "0" THEN PyTrue ELSE PyFalse,
     raised |-> "none",
     log |-> IF c.raised = "socket.gaierror" THEN "Invalid IP address"
             ELSE IF c.raised # "none" THEN "Connection test failed"
             ELSE IF c.errno = "0" THEN "TV is reachable"
             ELSE "Cannot connect to TV"]

\* the luna-send-pub command lines the helper sends
LaunchSoftwareUpdate == "applicationManager/launch softwareupdate mode=user"
LaunchExpertMode == "applicationManager/launch softwareupdate mode=expert"
GetSystemInfo == "tvproperty/getSystemInfo"
ListApps == "applicationManager/listApps"

\* what one run of the ssh client can come to: exit status 0 with some
\* standard output, a non-zero exit status (the remote command failed, or the
\* client could not reach the address), no end within the timeout, or no ssh
\* executable
SshKinds == {"ok", "nonzero", "timeout", "notfound"}

Developer == <<"d", "e", "v", "e", "l", "o", "p", "e", "r">>
Stdouts ==
    {<<>>,
     <<"t", "v">>,
     <<"d", "e", "v">>,
     <<"a", ".">> \o Developer,
     <<"D", "E", "V", "E", "L", "O", "P", "E", "R">>,
     <<"D", "e", "v", "e", "l", "o", "p", "e", "r", " ", "M", "o", "d", "e">>}

SshOutcomes ==
    {[kind |-> "ok", stdout |-> o] : o \in Stdouts}
        \cup {[kind |-> k, stdout |-> <<>>] : k \in SshKinds \ {"ok"}}

\* ssh -p <port> -o StrictHostKeyChecking=no -o UserKnownHostsFile=/dev/null
\*     -o ConnectTimeout=10 <user>@<tv_ip> <command>
SshRun(h, command, capture_output, out) ==
    [tool |-> "ssh", port |-> h.port, user |-> h.user, host |-> h.tv_ip,
     command |-> command, capture_output |-> capture_output,
     timeout |-> COMMAND_TIMEOUT, outcome |-> out.kind]

CommandSent == <<"C", "o", "m", "m", "a", "n", "d", " ", "s", "e", "n", "t">>

\* a slip: a failed run tried once more
execute_command_retrying(h, command, capture_output, out) ==
    [probes |-> <<>>,
     runs |-> IF out.kind = "ok" THEN <<SshRun(h, command, capture_output, out)>>
              ELSE <<SshRun(h, command, capture_output, out),
                     SshRun(h, command, capture_output, out)>>,
     result |-> IF out.kind # "ok" THEN None
                ELSE IF capture_output THEN out.stdout ELSE CommandSent,
     raised |-> "none",
     log |-> ""]

\* a slip: the exit status of an uncaptured run not checked
execute_command_unchecked(h, command, capture_output, out) ==
    [probes |-> <<>>,
     runs |-> <<SshRun(h, command, capture_output, out)>>,
     result |-> IF out.kind \in {"timeout", "notfound"} THEN None
                ELSE IF ~capture_output THEN CommandSent
                ELSE IF out.kind = "ok" THEN out.stdout ELSE None,
     raised |-> "none",
     log |-> ""]

\* _execute_command: one subprocess.run of ssh.  With capture_output the
\* standard output is returned when the exit status is 0 and None otherwise;
\* without it check=True raises CalledProcessError on a non-zero status.
\* TimeoutExpired, CalledProcessError and FileNotFoundError are caught and
\* give None.
execute_command(h, command, capture_output, out) ==
    [probes |-> <<>>,
     runs |-> <<SshRun(h, command, capture_output, out)>>,
     result |-> IF out.kind # "ok" THEN None
                ELSE IF capture_output THEN out.stdout ELSE CommandSent,
     raised |-> "none",
     log |-> CASE out.kind = "ok" -> "Executing command via SSH..."
               [] out.kind = "nonzero" ->
                      IF capture_output THEN "Command failed"
                      ELSE "SSH command failed"
               [] out.kind = "timeout" -> "Command timed out"
               [] OTHER -> "SSH client not found. Please install OpenSSH."]

\* send_software_update: what _execute_command returns
send_software_update(h, out) == execute_command(h, LaunchSoftwareUpdate, FALSE, out)

\* send_expert_mode: what _execute_command returns
send_expert_mode(h, out) == execute_command(h, LaunchExpertMode, FALSE, out)

\* get_firmware_info: result if result else None
get_firmware_info(h, out) ==
    LET r == execute_command(h, GetSystemInfo, TRUE, out) IN
    [r EXCEPT !.result = IF Truthy(r.result) THEN r.result ELSE None]

\* check_developer_mode: True when the output, lower-cased, holds 'developer'
check_developer_mode(h, out) ==
    LET r == execute_command(h, ListApps, TRUE, out) IN
    [r EXCEPT !.result = IF Truthy(r.result) /\ Contains(Lower(r.result), Developer)
                         THEN PyTrue ELSE PyFalse]

RemoteActions ==
    {"send_software_update", "send_expert_mode", "get_firmware_info",
     "check_developer_mode"}

\* the record of a method call on the helper
SshCall(op, connect, out, done) ==
    [called |-> TRUE, op |-> op, connect |-> connect, out |-> out,
     probes |-> done.probes, runs |-> done.runs, result |-> done.result,
     raised |-> done.raised, log |-> done.log, helperBefore |-> helper]

NoRun == [kind |-> "none", stdout |-> <<>>]

\* ssh = SSHHelper(tv_ip)
new_SSHHelper(tv_ip) ==
    /\ helper' = SSHHelper(tv_ip)
    /\ sshOp' = [called |-> FALSE, op |-> "none", connect |-> "none", out |-> NoRun,
                 probes |-> <<>>, runs |-> <<>>, result |-> None,
                 raised |-> "none", log |-> "", helperBefore |-> SSHHelper(tv_ip)]
    /\ UNCHANGED <<dbVars, usbVars, fmtVars, findVars, system, uiVars,
                   scanVars, discVars, cliVars>>

\* ssh.test_connection()
call_test_connection ==
    \E outcome \in ConnectOutcomes :
        /\ sshOp' = SshCall("test_connection", outcome, NoRun,
                            test_connection(helper, outcome))
        /\ UNCHANGED <<dbVars, usbVars, fmtVars, findVars, system, uiVars,
                       helper, scanVars, discVars, cliVars>>

\* ssh.send_software_update()
call_send_software_update ==
    \E out \in SshOutcomes :
        /\ sshOp' = SshCall("send_software_update", "none", out,
                            send_software_update(helper, out))
        /\ UNCHANGED <<dbVars, usbVars, fmtVars, findVars, system, uiVars,
                       helper, scanVars, discVars, cliVars>>

\* ssh.send_expert_mode()
call_send_expert_mode ==
    \E out \in SshOutcomes :
        /\ sshOp' = SshCall("send_expert_mode", "none", out,
                            send_expert_mode(helper, out))
        /\ UNCHANGED <<dbVars, usbVars, fmtVars, findVars, system, uiVars,
                       helper, scanVars, discVars, cliVars>>

\* ssh.get_firmware_info()
call_get_firmware_info ==
    \E out \in SshOutcomes :
        /\ sshOp' = SshCall("get_firmware_info", "none", out,
                            get_firmware_info(helper, out))
        /\ UNCHANGED <<dbVars, usbVars, fmtVars, findVars, system, uiVars,
                       helper, scanVars, discVars, cliVars>>

\* ssh.check_developer_mode()
call_check_developer_mode ==
    \E out \in SshOutcomes :
        /\ sshOp' = SshCall("check_developer_mode", "none", out,
                            check_developer_mode(helper, out))
        /\ UNCHANGED <<dbVars, usbVars, fmtVars, findVars, system, uiVars,
                       helper, scanVars, discVars, cliVars>>

\* the addresses a helper is made for: two hosts of the local network, a
\* name, and the empty string
LocalPrefix == <<"1", "0", ".", "0", ".", "0", ".">>
TvIps ==
    {LocalPrefix \o <<"1">>, LocalPrefix \o <<"2">>,
     <<"t", "v", ".", "l", "a", "n">>, <<>>}

(***************************************************************************)
(* The sweeps: SSHConnectionWizard.scan_network over range(1, 255) and     *)
(* TVDiscovery._scan_ports over range(1, 100) of the local /24, one        *)
(* SSHHelper(ip).test_connection() per host number.  A step of the model   *)
(* is one turn of the loop.                                                *)
(***************************************************************************)
\* the last host number scan_network probes (254 in the program)
LastHost == 3
\* the last host number _scan_ports probes (99 in the program)
LastCommon == 2

\* range(1, 255) and range(1, 100): the last number of the sweep's range
range_end(kind) == IF kind = "scan_network" THEN LastHost ELSE LastCommon

\* str(i) for a host number of one digit
DigitChar == <<"1", "2", "3", "4", "5", "6", "7", "8", "9">>

\* str(network.network_address + i), f"{prefix}.{i}"
HostIp(i) == LocalPrefix \o <<DigitChar[i]>>

\* a slip: the sweep left at the first host that answers
NextIndexUntilHit(kind, i, hit) == IF hit THEN range_end(kind) + 1 ELSE i + 1

\* the for loop's next host number
NextIndex(kind, i, hit) == i + 1

SweepIdle ==
    [kind |-> "none", pc |-> "idle", i |-> 1, local |-> FALSE,
     probes |-> <<>>, found |-> <<>>, result |-> <<>>]

\* scan_network() / _scan_ports() up to the loop: the local address is asked
\* of a UDP socket connected to 8.8.8.8; when that raises, the except clause
\* returns [] (scan_network) or the empty devices (_scan_ports)
sweep_begin(kind) ==
    /\ sweep.pc # "loop"
    /\ \E local \in BOOLEAN :
           sweep' = [SweepIdle EXCEPT !.kind = kind, !.local = local,
                                      !.pc = IF local THEN "loop" ELSE "done"]
    /\ UNCHANGED <<dbVars, usbVars, fmtVars, findVars, system, uiVars,
                   sshVars, discVars, cliVars>>

\* one turn of the loop: if SSHHelper(ip).test_connection(): found.append(ip).
\* An exception out of the turn would end the sweep in the except clause,
\* scan_network returning [] and _scan_ports the devices found so far.
sweep_probe ==
    /\ sweep.pc = "loop"
    /\ sweep.i <= range_end(sweep.kind)
    /\ \E outcome \in ConnectOutcomes :
       \E r \in {test_connection(SSHHelper(HostIp(sweep.i)), outcome)} :
           sweep' =
               IF r.raised # "none"
               THEN [sweep EXCEPT !.pc = "done",
                                  !.probes = sweep.probes \o r.probes,
                                  !.result = IF sweep.kind = "scan_network"
                                             THEN <<>> ELSE sweep.found]
               ELSE [sweep EXCEPT
                        !.probes = sweep.probes \o r.probes,
                        !.found = IF r.result = PyTrue
                                  THEN Append(sweep.found, HostIp(sweep.i))
                                  ELSE sweep.found,
                        !.i = NextIndex(sweep.kind, sweep.i, r.result = PyTrue)]
    /\ UNCHANGED <<dbVars, usbVars, fmtVars, findVars, system, uiVars,
                   sshVars, discVars, cliVars>>

\* the loop is over: return found / return devices
sweep_return ==
    /\ sweep.pc = "loop"
    /\ sweep.i > range_end(sweep.kind)
    /\ sweep' = [sweep EXCEPT !.pc = "done", !.result = sweep.found]
    /\ UNCHANGED <<dbVars, usbVars, fmtVars, findVars, system, uiVars,
                   sshVars, discVars, cliVars>>

SweepKinds == {"scan_network", "_scan_ports"}

(***************************************************************************)
(* TVDiscovery.discover.  lan is what the network answers: the output of   *)
(* avahi-browse and of upnpc (a list of lines), whether the host has a     *)
(* local address, and what a connect to each local host comes to.          *)
(***************************************************************************)
\* str.split(sep) for a one-character separator
RECURSIVE Split(_, _)
Split(s, sep) ==
    IF \A i \in 1..Len(s) : s[i] # sep THEN <<s>>
    ELSE LET k == CHOOSE i \in 1..Len(s) :
                      s[i] = sep /\ \A j \in 1..(i - 1) : s[j] # sep
         IN <<SubSeq(s, 1, k - 1)>> \o Split(SubSeq(s, k + 1, Len(s)), sep)

IsDigit(c) == c \in {"0", "1", "2", "3", "4", "5", "6", "7", "8", "9"}

\* the number of digits, at most three, that s holds from position i on
DigitRun(s, i) ==
    IF i > Len(s) \/ ~IsDigit(s[i]) THEN 0
    ELSE IF i + 1 > Len(s) \/ ~IsDigit(s[i + 1]) THEN 1
    ELSE IF i + 2 > Len(s) \/ ~IsDigit(s[i + 2]) THEN 2
    ELSE 3

\* the ends of the matches of (\d{1,3}\.){n}\d{1,3} starting at position i of s
RECURSIVE QuadEnds(_, _, _)
QuadEnds(s, i, n) ==
    IF n = 0 THEN {i + d - 1 : d \in 1..DigitRun(s, i)}
    ELSE UNION {QuadEnds(s, i + d + 1, n - 1) :
                   d \in {e \in 1..DigitRun(s, i) :
                             i + e <= Len(s) /\ s[i + e] = "."}}

Max(S) == CHOOSE x \in S : \A y \in S : y <= x

\* re.search(r'\d{1,3}\.\d{1,3}\.\d{1,3}\.\d{1,3}', line): the leftmost match,
\* its last group as long as it can be; None when there is none
SearchIp(line) ==
    IF \A i \in 1..Len(line) : QuadEnds(line, i, 3) = {} THEN None
    ELSE LET i == CHOOSE i \in 1..Len(line) :
                      /\ QuadEnds(line, i, 3) # {}
                      /\ \A j \in 1..(i - 1) : QuadEnds(line, j, 3) = {}
         IN SubSeq(line, i, Max(QuadEnds(line, i, 3)))

LG == <<"L", "G">>
WEBOS == <<"W", "E", "B", "O", "S">>

\* what running avahi-browse or upnpc can come to: its lines of output with
\* exit status 0 or with a non-zero one, no end within the timeout, or no
\* such executable
ToolKinds == {"ok", "nonzero", "timeout", "notfound"}

\* the loop of _check_mdns over the lines: parts[2] of every line that
\* names LG or WEBOS, in any case, and has more than two ;-separated parts
RECURSIVE MdnsDevices(_)
MdnsDevices(lines) ==
    IF lines = <<>> THEN <<>>
    ELSE LET line == Head(lines)
             parts == Split(line, ";")
         IN (IF /\ Contains(Upper(line), LG) \/ Contains(Upper(line), WEBOS)
                /\ Len(parts) > 2
             THEN <<parts[3]>> ELSE <<>>) \o MdnsDevices(Tail(lines))

\* _check_mdns: subprocess.run(['avahi-browse', ...], timeout=10), its exit
\* status not looked at; FileNotFoundError and TimeoutExpired are passed over
check_mdns(out) ==
    IF out.kind \in {"timeout", "notfound"}
    THEN [devices |-> <<>>, raised |-> "none"]
    ELSE [devices |-> MdnsDevices(out.lines), raised |-> "none"]

\* the loop of _upnp_discover over the lines: the first dotted quad of every
\* line that names LG, in any case
RECURSIVE UpnpDevices(_)
UpnpDevices(lines) ==
    IF lines = <<>> THEN <<>>
    ELSE LET line == Head(lines) IN
         (IF Contains(Upper(line), LG) /\ SearchIp(line) # None
          THEN <<SearchIp(line)>> ELSE <<>>) \o UpnpDevices(Tail(lines))

\* _upnp_discover: subprocess.run(['upnpc', '-l'], timeout=10), its exit
\* status not looked at; FileNotFoundError and TimeoutExpired are passed over
upnp_discover(out) ==
    IF out.kind \in {"timeout", "notfound"}
    THEN [devices |-> <<>>, raised |-> "none"]
    ELSE [devices |-> UpnpDevices(out.lines), raised |-> "none"]

\* the loop of _scan_ports from host number i on
RECURSIVE ScanFrom(_, _)
ScanFrom(reach, i) ==
    IF i > range_end("_scan_ports") THEN <<>>
    ELSE LET hit == test_connection(SSHHelper(HostIp(i)), reach[i]).result = PyTrue
         IN (IF hit THEN <<HostIp(i)>> ELSE <<>>)
                \o ScanFrom(reach, NextIndex("_scan_ports", i, hit))

\* _scan_ports: the hosts 1..99 of the local /24 that accept a connection,
\* none when the local address cannot be had
scan_ports(local, reach) ==
    [devices |-> IF local THEN ScanFrom(reach, 1) ELSE <<>>, raised |-> "none"]

\* the orders a set can be listed in
RECURSIVE Orderings(_)
Orderings(S) ==
    IF S = {} THEN {<<>>}
    ELSE UNION {{<<x>> \o q : q \in Orderings(S \ {x})} : x \in S}

\* a slip: the devices returned as collected
devices_as_collected(devices) == {devices}

\* list(set(devices)): the distinct devices, in an order of the set's choosing
list_set(devices) == Orderings(Range(devices))

\* TVDiscovery.discover(): _check_mdns, _scan_ports, _upnp_discover, and the
\* duplicates removed
discover ==
    \E mdns \in {check_mdns(lan.mdns)} :
    \E ports \in {scan_ports(lan.local, lan.reach)} :
    \E upnp \in {upnp_discover(lan.upnp)} :
    \E result \in list_set(mdns.devices \o ports.devices \o upnp.devices) :
        /\ discOp' = [called |-> TRUE, mdns |-> mdns.devices,
                      ports |-> ports.devices, upnp |-> upnp.devices,
                      raised |-> "none", result |-> result]
        /\ UNCHANGED <<dbVars, usbVars, fmtVars, findVars, system, uiVars,
                       sshVars, scanVars, lan, cliVars>>

(***************************************************************************)
(* The networks discovery is run on: up to MaxLines lines from each tool   *)
(***************************************************************************)
MaxLines == 1

OutsideIp == LocalPrefix \o <<"9">>

MdnsLineSet ==
    {<<"l", "g", ";", "e", ";">> \o HostIp(1),
     <<"W", "E", "B", "O", "S", ";", "e", ";">> \o OutsideIp,
     <<"t", "v", ";", "e", ";">> \o HostIp(2),
     <<"l", "g", ";", "e">>}

UpnpLineSet ==
    {<<"L", "g", " ">> \o HostIp(1),
     <<"l", "g", " ">> \o OutsideIp \o <<" ">> \o HostIp(2),
     <<"t", "v", " ">> \o HostIp(2),
     <<"L", "G", " ", "1", "0", ".", "0">>}

LinesOf(lineSet) == UNION {[1..n -> lineSet] : n \in 0..MaxLines}

ToolOutcomes(lineSet) ==
    {[kind |-> k, lines |-> l] : k \in {"ok", "nonzero"}, l \in LinesOf(lineSet)}
        \cup {[kind |-> k, lines |-> <<>>] : k \in {"timeout", "notfound"}}

Reaches == [1..LastCommon -> {"connected", "refused"}]

Lans ==
    {[mdns |-> m, upnp |-> u, local |-> TRUE, reach |-> r] :
        m \in ToolOutcomes(MdnsLineSet), u \in ToolOutcomes(UpnpLineSet),
        r \in Reaches}
     \cup
    {[mdns |-> m, upnp |-> u, local |-> FALSE,
      reach |-> [i \in 1..LastCommon |-> "refused"]] :
        m \in ToolOutcomes(MdnsLineSet), u \in ToolOutcomes(UpnpLineSet)}

(***************************************************************************)
(* lgtv_downgrade: LGTVDowngrader, its wizard, and main.  An option of the *)
(* command line is the empty sequence when it is not given (None) and the  *)
(* one-element sequence of its value when it is.  A line typed at a prompt *)
(* is a sequence of characters, or of path components, with blanks around  *)
(* it.  A step of the wizard is one answer and what the program does up to *)
(* its next prompt.                                                        *)
(***************************************************************************)
NotGiven == <<>>
Given(v) == <<v>>

\* bool(args.x) for an option holding a string: given, and not empty
OptTruthy(o) == o # NotGiven /\ o[1] # <<>>

\* str.strip(): the blanks at both ends removed
RECURSIVE LStrip(_)
LStrip(s) == IF s # <<>> /\ s[1] = " " THEN LStrip(Tail(s)) ELSE s
Strip(s) == RStrip(LStrip(s), " ")

DefaultModel ==
    <<"L", "G", "-", "4", "3", "U", "P", "7", "5", "0", "0", "6", "L", "F">>
DefaultFirmware == <<"3", ".", "2", "1", ".", "3", "0">>

\* the file of the host's filesystem that an entry of the cache listing is
CachedName(name) ==
    CASE name = DefaultFirmware \o DotEpk -> "3.21.30.epk"
      [] name = V_03_21_30 \o DotEpk -> "03.21.30.epk"
      [] OTHER -> "other.epk"

\* the path find_and_download returned, on the filesystem
FsPath(cache_path) == Join(P_fw, CachedName(Tail(cache_path)))

Call(op, target, ok) == [op |-> op, target |-> target, ok |-> ok]
NetEvent(kind, ip, ok) == [kind |-> kind, ip |-> ip, ok |-> ok]

\* self.firmware_dir.mkdir(exist_ok=True) of LGTVDowngrader and of
\* FirmwareFinder, on the listing and on the filesystem
WithFirmwareDir(w) ==
    [w EXCEPT !.cache = firmware_dir_mkdir(w.cache),
              !.fs = IF Exists(w.fs, P_fw) THEN w.fs ELSE Put(w.fs, P_fw, Dir)]

\* LGTVDowngrader.find_firmware on the world w: the finder is made and asked;
\* the path when it is truthy, None otherwise
dg_find_firmware(w, tv_model, target_firmware) ==
    LET out == find_and_download(w.cache.listing, Upper(tv_model),
                                 target_firmware, system)
    IN [WithFirmwareDir(w) EXCEPT
                 !.printed = out.printed,
                 !.firmware_path = IF Truthy(out.result) THEN out.result ELSE None,
                 !.calls = Append(w.calls,
                                  Call("find_firmware", <<>>, Truthy(out.result)))]

\* prepare_firmware("") on a USBPrepper(usb_path): Path("") is the current
\* directory, which exists; LG_DTV is made; copy2 cannot open "" and raises
\* FileNotFoundError, which is caught
PrepareOutcomeNoSource(f, usb_path, denied) ==
    LET made == MakeDirs(f, LgDtvPath(usb_path), denied) IN
    IF ~UsbPathExists(f, usb_path)
    THEN [fs |-> f, result |-> FALSE, summary |-> NoSummary,
          log |-> <<LogLine("USB path not found", "")>>]
    ELSE IF made.cause # "ok"
    THEN [fs |-> made.fs, result |-> FALSE, summary |-> NoSummary,
          log |-> <<LogLine("Failed to create LG_DTV folder", made.cause)>>]
    ELSE [fs |-> made.fs, result |-> FALSE, summary |-> NoSummary,
          log |-> <<LogLine("Created LG_DTV folder", ""),
                    LogLine("Failed to copy firmware", "FileNotFoundError")>>]

\* LGTVDowngrader.prepare_usb(firmware_path, usb_path):
\* USBPrepper(usb_path).prepare_firmware(firmware_path)
dg_prepare_usb(w, firmware_path, usb_path, denied, fault) ==
    LET out == IF firmware_path = <<>>
               THEN PrepareOutcomeNoSource(w.fs, usb_path, denied)
               ELSE PrepareOutcome(w.fs, FsPath(firmware_path), usb_path,
                                   denied, fault)
    IN [w EXCEPT !.fs = out.fs,
                 !.calls = Append(w.calls, Call("prepare_usb", usb_path, out.result))]

\* LGTVDowngrader.connect_tv(tv_ip): SSHHelper(tv_ip).test_connection()
dg_connect_tv(w, tv_ip, outcome) ==
    LET r == test_connection(SSHHelper(tv_ip), outcome) IN
    [w EXCEPT !.net = Append(w.net, NetEvent("probe", tv_ip, r.result = PyTrue)),
              !.calls = Append(w.calls, Call("connect_tv", tv_ip, r.result = PyTrue))]

\* LGTVDowngrader.send_downgrade_command(tv_ip):
\* SSHHelper(tv_ip).send_software_update()
dg_send_downgrade_command(w, tv_ip, out) ==
    LET r == send_software_update(SSHHelper(tv_ip), out) IN
    [w EXCEPT !.net = w.net \o [k \in 1..Len(r.runs) |->
                                   NetEvent("ssh", r.runs[k].host, out.kind = "ok")],
              !.calls = Append(w.calls, Call("send_downgrade_command", tv_ip,
                                             Truthy(r.result)))]

\* the call made last on the world w
LastCall(w) == w.calls[Len(w.calls)]

\* what the program works on, and what it has done so far
World ==
    [cache |-> cache, fs |-> fs, printed |-> printed,
     firmware_path |-> cliOp.firmware_path, calls |-> cliOp.calls,
     net |-> cliOp.net]

\* the state the program goes on in: the world w, at prompt pc, or ended with
\* an exit status
Commit(w, pc, exit, fields) ==
    /\ cache' = w.cache
    /\ fs' = w.fs
    /\ printed' = w.printed
    /\ cliOp' = [fields EXCEPT !.firmware_path = w.firmware_path,
                               !.calls = w.calls, !.net = w.net,
                               !.pc = pc, !.exit = exit]
    /\ UNCHANGED <<dbVars, usbOp, fsBefore, fmtVars, findOp, netRequests, system,
                   uiVars,
                   sshVars, scanVars, discVars>>

\* the actions of main after the arguments are validated: find firmware when
\* --find-firmware is given
main_find(w, args) ==
    IF args.find_firmware
    THEN dg_find_firmware(w, args.model[1], args.firmware[1])
    ELSE w

\* a slip: the volume staged whether or not --find-firmware is given
main_usb_standalone(w, args, denied) ==
    IF ~OptTruthy(args.usb) THEN [w |-> w, exit |-> "none"]
    ELSE [w |-> dg_prepare_usb(w, <<>>, args.usb[1], denied, [kind |-> "ok", n |-> 0]),
          exit |-> "none"]

\* prepare USB when --usb holds a path: with --find-firmware the stager is
\* called with "" for the firmware, without it main exits with status 1
main_usb(w, args, denied) ==
    IF ~OptTruthy(args.usb) THEN [w |-> w, exit |-> "none"]
    ELSE IF ~args.find_firmware THEN [w |-> w, exit |-> "1"]
    ELSE [w |-> dg_prepare_usb(w, <<>>, args.usb[1], denied, [kind |-> "ok", n |-> 0]),
          exit |-> "none"]

\* send the remote command when --send-command is given: without an address
\* main exits with status 1
main_send(w, args, out) ==
    IF ~args.send_command THEN [w |-> w, exit |-> "0"]
    ELSE IF ~OptTruthy(args.ip) THEN [w |-> w, exit |-> "1"]
    ELSE [w |-> dg_send_downgrade_command(w, args.ip[1], out), exit |-> "0"]

\* if not any([args.usb, args.send_command, args.find_firmware]):
\*     args.wizard = True
wizard_mode(args) ==
    args.wizard \/ ~(OptTruthy(args.usb) \/ args.send_command \/ args.find_firmware)

\* main(): one invocation of the program with the arguments args.  The
\* wizard, when it is the mode, is entered and stops at its first prompt.
main(args) ==
    /\ cliOp.pc = "start"
    /\ \E out \in {o \in SshOutcomes : o.stdout = <<>>}, denied \in BOOLEAN :
       LET began == [cliOp EXCEPT !.args = args, !.wizard = wizard_mode(args)]
           made == WithFirmwareDir(World)
       IN
       IF wizard_mode(args)
       THEN Commit([made EXCEPT !.calls = <<Call("run_wizard", <<>>, TRUE)>>],
                   "ask_model", "none",
                   [began EXCEPT !.tv_model = DefaultModel,
                                 !.target_firmware = DefaultFirmware])
       ELSE IF ~OptTruthy(args.model) \/ ~OptTruthy(args.firmware)
       THEN Commit(World, "exit", "1", began)
       ELSE LET found == main_find(made, args)
                staged == main_usb(found, args, denied)
                sent == main_send(staged.w, args, out)
                fields == [began EXCEPT !.tv_model = args.model[1],
                                        !.target_firmware = args.firmware[1]]
            IN IF staged.exit # "none"
               THEN Commit(staged.w, "exit", staged.exit, fields)
               ELSE Commit(sent.w, "exit", sent.exit, fields)

\* run_wizard, Step 1: model = input().strip() or self.tv_model
answer_model(text) ==
    /\ cliOp.pc = "ask_model"
    /\ Commit(World, "ask_firmware", "none",
              [cliOp EXCEPT !.tv_model = IF Strip(text) # <<>> THEN Strip(text)
                                         ELSE cliOp.tv_model])

\* run_wizard, Step 2: firmware = input().strip() or self.target_firmware
answer_firmware(text) ==
    /\ cliOp.pc = "ask_firmware"
    /\ Commit(World, "ask_choice", "none",
              [cliOp EXCEPT !.target_firmware =
                                IF Strip(text) # <<>> THEN Strip(text)
                                ELSE cliOp.target_firmware])

\* run_wizard, Step 3: the method chosen.  Methods 1, 2 and 4 look for the
\* firmware and, when it is found, ask for the USB path; method 3 asks for the
\* address of the TV; any other answer is an invalid choice.
answer_choice(text) ==
    /\ cliOp.pc = "ask_choice"
    /\ LET choice == Strip(text)
           chosen == [cliOp EXCEPT !.method = choice]
           found == dg_find_firmware(World, cliOp.tv_model, cliOp.target_firmware)
       IN
       IF choice \in {<<"1">>, <<"2">>, <<"4">>}
       THEN IF found.firmware_path = None
            THEN Commit(found, "exit", "0", chosen)
            ELSE Commit(found, "ask_usb", "none", chosen)
       ELSE IF choice = <<"3">>
       THEN Commit(World, "ask_ip", "none", chosen)
       ELSE Commit(World, "exit", "0", chosen)

\* method_ssh: the address typed; without one the method returns; connect_tv
\* probes it and the method returns when the probe fails; then the firmware
\* is looked for and the method returns when it is not found
answer_ip(text) ==
    /\ cliOp.pc = "ask_ip"
    /\ \E outcome \in ConnectOutcomes :
       LET tv_ip == Strip(text)
           typed == [cliOp EXCEPT !.tv_ip = tv_ip]
           probed == dg_connect_tv(World, tv_ip, outcome)
           found == dg_find_firmware(probed, cliOp.tv_model, cliOp.target_firmware)
       IN
       IF tv_ip = <<>> THEN Commit(World, "exit", "0", typed)
       ELSE IF ~LastCall(probed).ok THEN Commit(probed, "exit", "0", typed)
       ELSE IF found.firmware_path = None THEN Commit(found, "exit", "0", typed)
       ELSE Commit(found, "ask_usb", "none", typed)

\* the USB path typed in methods 1 to 4: prepare_usb when it is not empty;
\* method 3 goes on to ask whether to send the command, the others return
answer_usb(text) ==
    /\ cliOp.pc = "ask_usb"
    /\ \E denied \in BOOLEAN,
          fault \in CopyFaults(SourceData(fs, FsPath(cliOp.firmware_path))) :
       LET usb_path == Strip(text)
           staged == IF usb_path # <<>>
                     THEN dg_prepare_usb(World, cliOp.firmware_path, usb_path,
                                         denied, fault)
                     ELSE World
       IN
       IF cliOp.method = <<"3">>
       THEN Commit(staged, "ask_send", "none", cliOp)
       ELSE Commit(staged, "exit", "0", cliOp)

\* a slip: every answer but 'n' taken for a yes
send_now_unless_no(text) == Lower(Strip(text)) # <<"n">>

\* input(...).strip().lower() == 'y'
send_now(text) == Lower(Strip(text)) = <<"y">>

\* method_ssh: Send downgrade command now? (y/n)
answer_send(text) ==
    /\ cliOp.pc = "ask_send"
    /\ \E out \in {o \in SshOutcomes : o.stdout = <<>>} :
       LET answered == [cliOp EXCEPT !.answer = text] IN
       IF send_now(text)
       THEN Commit(dg_send_downgrade_command(World, cliOp.tv_ip, out),
                   "exit", "0", answered)
       ELSE Commit(World, "exit", "0", answered)

(***************************************************************************)
(* The command lines, the answers and the hosts main is run on             *)
(***************************************************************************)
CliModel == <<"l", "g", "-", "4", "3", "u", "p", "7", "5">>
TvIp == HostIp(2)

ArgSets ==
    {[model |-> m, firmware |-> f, usb |-> u, ip |-> a,
      send_command |-> s, find_firmware |-> ff, wizard |-> wz] :
        m \in {NotGiven, Given(CliModel)},
        f \in {NotGiven, Given(V_03_21_30)},
        u \in {NotGiven, Given(<<>>), Given(P_usb)},
        a \in {NotGiven, Given(<<>>), Given(TvIp)},
        s \in BOOLEAN, ff \in BOOLEAN, wz \in BOOLEAN}

TypedModels == {<<>>, <<" ">>, <<" ">> \o CliModel}
TypedFirmwares == {<<>>, <<" ">> \o V_03_21_30 \o <<" ">>}
TypedChoices == {<<"1">>, <<"2">>, <<" ", "3">>, <<"4">>, <<"5">>, <<>>}
TypedIps == {<<>>, <<" ">>, TvIp \o <<" ">>}
TypedUsbPaths == {<<>>, <<" ">>, <<" ">> \o P_usb, P_mnt}
TypedSends == {<<"y">>, <<" ", "Y", " ">>, <<"n">>, <<>>, <<"y", "e", "s">>}

P_cached3 == Join(P_fw, CachedName(DefaultFirmware \o DotEpk))
P_cached03 == Join(P_fw, CachedName(V_03_21_30 \o DotEpk))

\* the hosts: the cache directory missing, or holding the firmware of both
\* versions; the volume missing or mounted
CliHosts ==
    {[cache |-> IF hit THEN [exists |-> TRUE,
                             listing |-> <<V_03_21_30 \o DotEpk,
                                           DefaultFirmware \o DotEpk>>]
                ELSE [exists |-> FALSE, listing |-> <<>>],
      fs |-> FsOf([p \in {P_fw, P_cached3, P_cached03, P_usb} |->
                     CASE p = P_fw -> IF hit THEN Dir ELSE Absent
                       [] p = P_usb -> IF usb THEN Dir ELSE Absent
                       [] OTHER -> IF hit THEN File(<<1>>) ELSE Absent])] :
        hit \in BOOLEAN, usb \in BOOLEAN}

(***************************************************************************)
(* FirmwareFinder.verify_firmware.  The path is given by its last          *)
(* component, a sequence of characters, and by what the filesystem holds   *)
(* there: nothing, or a file or a directory with its st_size in bytes and  *)
(* its content.                                                            *)
(***************************************************************************)

\* the positions of the dots of a name
Dots(name) == {i \in 1..Len(name) : name[i] = "."}

\* Path(firmware_path).suffix: the name from its last dot on, unless that dot
\* is the first or the last character of the name, or there is none
Suffix(name) ==
    IF Dots(name) = {} THEN <<>>
    ELSE LET i == Max(Dots(name)) IN
         IF 1 < i /\ i < Len(name) THEN SubSeq(name, i, Len(name)) ELSE <<>>

\* 1024 * 1024, the bytes of what the code calls a MB
BYTES_PER_MB == 1024 * 1024

MIN_SIZE_MB == 100

\* a slip: the megabyte taken for 1000 * 1000 bytes
size_ok_decimal(st_size) == ~(st_size < MIN_SIZE_MB * (1000 * 1000))

\* not (size_mb < 100), where size_mb = st_size / (1024 * 1024): the division
\* by a power of two is exact, so the comparison is that of the byte counts
size_ok(st_size) == ~(st_size < MIN_SIZE_MB * BYTES_PER_MB)

NoFile == [kind |-> "absent", st_size |-> 0, content |-> "none"]

\* verify_firmware(firmware_path): the value returned and the message logged
verify_firmware(name, node) ==
    IF node.kind = "absent"
    THEN [result |-> FALSE, log |-> "Firmware file not found"]
    ELSE IF ~(Lower(Suffix(name)) = DotEpk)
    THEN [result |-> FALSE, log |-> "Invalid firmware format"]
    ELSE IF ~size_ok(node.st_size)
    THEN [result |-> FALSE, log |-> "Firmware file seems small"]
    ELSE [result |-> TRUE, log |-> "Firmware verified"]

\* one call of FirmwareFinder.verify_firmware
call_verify_firmware(name, node) ==
    \E out \in {verify_firmware(name, node)} :
        /\ verifyOp' = [called |-> TRUE, name |-> name, node |-> node,
                        result |-> out.result, log |-> out.log]
        /\ UNCHANGED <<dbVars, usbVars, fmtVars, findVars, system, netVars, gui>>

\* the names, sizes and contents verify_firmware is run on
VerifyNames ==
    {<<"f", "w", ".", "e", "p", "k">>, <<"f", "w", ".", "E", "P", "K">>,
     <<"f", "w", ".", "E", "p", "k">>, <<"f", "w", ".", "e", "p", "k", ".", "b">>,
     <<"f", ".", "w", ".", "e", "p", "k">>, <<".", "e", "p", "k">>,
     <<"f", "w", ".", "e", "p", "k", ".">>, <<"f", "w", ".", "e", "p", "k", "x">>,
     <<"f", "w", "e", "p", "k">>, <<"f", "w", ".", "e", "p">>}

VerifySizes ==
    {0, MIN_SIZE_MB * (1000 * 1000), MIN_SIZE_MB * BYTES_PER_MB - 1,
     MIN_SIZE_MB * BYTES_PER_MB, MIN_SIZE_MB * BYTES_PER_MB + 1,
     2 * MIN_SIZE_MB * BYTES_PER_MB}

VerifyNodes ==
    {NoFile} \cup
    {[kind |-> k, st_size |-> n, content |-> c] :
        k \in {"file", "dir"}, n \in VerifySizes, c \in {"epk image", "zeros"}}

VerifyIdle ==
    verifyOp = [called |-> FALSE, name |-> <<>>, node |-> NoFile,
                result |-> FALSE, log |-> ""]

(***************************************************************************)
(* gui.LGTVDowngradeGUI.  Tk runs the command of a clicked button from its *)
(* event loop: from mainloop when no callback is running, and from         *)
(* root.update(), which log and update_status call, while one is.  A click *)
(* waits in the queue of events until one of the two takes it.  A callback *)
(* is modelled step by step: a step runs it up to its next call of         *)
(* root.update(), its next dialog, or its return; a call of root.update()  *)
(* returns once no event is waiting.  A dialog of messagebox is modal: no  *)
(* button of the window is clicked while it is shown.                      *)
(***************************************************************************)
MaxClicks == 2

READY == "Ready"

\* the buttons whose commands are the four operations
Buttons == {"prepare_usb", "test_connection", "send_software_update", "scan_network"}

\* the positions inside root.update(), called by update_status or by log
PumpPcs == {"update_busy", "log", "update_ready"}

\* the positions at which a dialog of messagebox is shown
DialogPcs == {"showerror", "askyesno", "showresult"}

\* the callback running innermost
Top == gui.stack[Len(gui.stack)]

\* a callback as Tk calls it
Frame(cb, status) ==
    [cb |-> cb, pc |-> "begin", entry |-> status, busy |-> FALSE,
     firmware |-> <<>>, usb |-> <<>>, ip |-> <<>>, answer |-> "none",
     ok |-> FALSE]

NoReturn ==
    [cb |-> "none", busy |-> FALSE, ok |-> FALSE, entry |-> READY, exit |-> READY]

\* the window after __init__, with the fields as the user filled them
Window(firmware_path, usb_path, tv_ip) ==
    [firmware_path |-> firmware_path, usb_path |-> usb_path, tv_ip |-> tv_ip,
     status |-> READY, stack |-> <<>>, pending |-> <<>>, clicks |-> 0,
     effects |-> <<>>, last |-> NoReturn]

\* the innermost callback goes on as frame f
Go(g, f) == [g EXCEPT !.stack[Len(g.stack)] = f]

\* the innermost callback of g returns
Return(g) ==
    LET f == g.stack[Len(g.stack)] IN
    [g EXCEPT !.stack = SubSeq(g.stack, 1, Len(g.stack) - 1),
              !.last = [cb |-> f.cb, busy |-> f.busy, ok |-> f.ok,
                        entry |-> f.entry, exit |-> g.status]]

\* a slip: 'Ready' restored after a success only
final_status_on_success(ok) == IF ok THEN READY ELSE "Error"

\* self.update_status("Ready"), the last statement of the four operations
final_status(ok) == READY

\* update_status(message) of the innermost callback, which goes into
\* root.update() at position pc
update_status(g, f, message, pc) ==
    Go([g EXCEPT !.status = message], [f EXCEPT !.pc = pc])

\* a slip: the answer of the dialog not looked at
askyesno_ignored(answer) == TRUE

\* messagebox.askyesno: True for yes
askyesno(answer) == answer = "yes"

\* what an operation did outside the window
Effect(op, f) ==
    [op |-> op, firmware |-> f.firmware, usb |-> f.usb, ip |-> f.ip,
     answer |-> f.answer]

\* the state the window and the filesystem go on in
GuiStep(g, f) ==
    /\ gui' = g
    /\ fs' = f
    /\ UNCHANGED <<dbVars, usbOp, fsBefore, fmtVars, findVars, system, netVars,
                   verifyOp>>

\* the user clicks a button of the window
click(b) ==
    /\ gui.clicks < MaxClicks
    /\ gui.stack # <<>> => Top.pc \notin DialogPcs
    /\ GuiStep([gui EXCEPT !.pending = Append(@, b), !.clicks = @ + 1], fs)

\* Tk calls the command of the button clicked first
Invoke(g) ==
    [g EXCEPT !.pending = Tail(g.pending),
              !.stack = Append(g.stack, Frame(Head(g.pending), g.status))]

\* root.mainloop(): no callback is running
mainloop ==
    /\ gui.stack = <<>>
    /\ gui.pending # <<>>
    /\ GuiStep(Invoke(gui), fs)

\* root.update() inside log or update_status: a callback is running
root_update ==
    /\ gui.stack # <<>>
    /\ Top.pc \in PumpPcs
    /\ gui.pending # <<>>
    /\ GuiStep(Invoke(gui), fs)

\* the innermost callback is cb and can go on: root.update() returns when no
\* event is waiting
Running(cb) ==
    /\ gui.stack # <<>>
    /\ Top.cb = cb
    /\ Top.pc \in PumpPcs => gui.pending = <<>>

\* LGTVDowngradeGUI.prepare_usb
gui_prepare_usb ==
    /\ Running("prepare_usb")
    /\ \/ /\ Top.pc = "begin"
          /\ LET f == [Top EXCEPT !.firmware = gui.firmware_path,
                                  !.usb = gui.usb_path]
             IN IF f.firmware = <<>> \/ f.usb = <<>>
                THEN GuiStep(Go(gui, [f EXCEPT !.pc = "showerror"]), fs)
                ELSE GuiStep(Go(gui, [f EXCEPT !.pc = "askyesno"]), fs)
       \/ /\ Top.pc = "showerror"
          /\ GuiStep(Return(gui), fs)
       \/ /\ Top.pc = "askyesno"
          /\ \E answer \in {"yes", "no"} :
                LET f == [Top EXCEPT !.answer = answer] IN
                IF askyesno(answer)
                THEN GuiStep(update_status(gui, [f EXCEPT !.busy = TRUE],
                                           "Preparing USB drive...", "update_busy"),
                             fs)
                ELSE GuiStep(Return(Go(gui, f)), fs)
       \/ /\ Top.pc = "update_busy"
          /\ \E denied \in BOOLEAN,
                fault \in CopyFaults(SourceData(fs, Top.firmware)) :
             \E out \in {PrepareOutcome(fs, Top.firmware, Top.usb, denied, fault)} :
                GuiStep(Go([gui EXCEPT !.effects =
                                Append(@, Effect("prepare_firmware", Top))],
                           [Top EXCEPT !.ok = out.result, !.pc = "showresult"]),
                        out.fs)
       \/ /\ Top.pc = "showresult"
          /\ IF Top.ok
             THEN GuiStep(Go(gui, [Top EXCEPT !.pc = "log"]), fs)
             ELSE GuiStep(update_status(gui, Top, final_status(Top.ok),
                                        "update_ready"), fs)
       \/ /\ Top.pc = "log"
          /\ GuiStep(update_status(gui, Top, final_status(Top.ok), "update_ready"),
                     fs)
       \/ /\ Top.pc = "update_ready"
          /\ GuiStep(Return(gui), fs)

\* LGTVDowngradeGUI.test_connection
gui_test_connection ==
    /\ Running("test_connection")
    /\ \/ /\ Top.pc = "begin"
          /\ LET f == [Top EXCEPT !.ip = gui.tv_ip] IN
             IF f.ip = <<>>
             THEN GuiStep(Go(gui, [f EXCEPT !.pc = "showerror"]), fs)
             ELSE GuiStep(update_status(gui, [f EXCEPT !.busy = TRUE],
                                        "Testing connection...", "update_busy"), fs)
       \/ /\ Top.pc = "showerror"
          /\ GuiStep(Return(gui), fs)
       \/ /\ Top.pc = "update_busy"
          /\ \E outcome \in ConnectOutcomes :
             \E r \in {test_connection(SSHHelper(Top.ip), outcome)} :
                GuiStep(Go([gui EXCEPT !.effects = Append(@, Effect("probe", Top))],
                           [Top EXCEPT !.ok = (r.result = PyTrue),
                                       !.pc = "showresult"]), fs)
       \/ /\ Top.pc = "showresult"
          /\ GuiStep(Go(gui, [Top EXCEPT !.pc = "log"]), fs)
       \/ /\ Top.pc = "log"
          /\ GuiStep(update_status(gui, Top, final_status(Top.ok), "update_ready"),
                     fs)
       \/ /\ Top.pc = "update_ready"
          /\ GuiStep(Return(gui), fs)

\* LGTVDowngradeGUI.send_software_update
gui_send_software_update ==
    /\ Running("send_software_update")
    /\ \/ /\ Top.pc = "begin"
          /\ LET f == [Top EXCEPT !.ip = gui.tv_ip] IN
             IF f.ip = <<>>
             THEN GuiStep(Go(gui, [f EXCEPT !.pc = "showerror"]), fs)
             ELSE GuiStep(Go(gui, [f EXCEPT !.pc = "askyesno"]), fs)
       \/ /\ Top.pc = "showerror"
          /\ GuiStep(Return(gui), fs)
       \/ /\ Top.pc = "askyesno"
          /\ \E answer \in {"yes", "no"} :
                LET f == [Top EXCEPT !.answer = answer] IN
                IF askyesno(answer)
                THEN GuiStep(update_status(gui, [f EXCEPT !.busy = TRUE],
                                           "Sending command...", "update_busy"), fs)
                ELSE GuiStep(Return(Go(gui, f)), fs)
       \/ /\ Top.pc = "update_busy"
          /\ \E out \in {o \in SshOutcomes : o.stdout = <<>>} :
             \E r \in {send_software_update(SSHHelper(Top.ip), out)} :
                GuiStep(Go([gui EXCEPT !.effects =
                                @ \o [k \in 1..Len(r.runs) |-> Effect("ssh", Top)]],
                           [Top EXCEPT !.ok = Truthy(r.result),
                                       !.pc = "showresult"]), fs)
       \/ /\ Top.pc = "showresult"
          /\ GuiStep(Go(gui, [Top EXCEPT !.pc = "log"]), fs)
       \/ /\ Top.pc = "log"
          /\ GuiStep(update_status(gui, Top, final_status(Top.ok), "update_ready"),
                     fs)
       \/ /\ Top.pc = "update_ready"
          /\ GuiStep(Return(gui), fs)

\* what TVDiscovery.discover() can return to the window: no address, one, two
GuiDeviceLists == {<<>>, <<HostIp(1)>>, <<HostIp(1), HostIp(2)>>}

\* LGTVDowngradeGUI.scan_network
gui_scan_network ==
    /\ Running("scan_network")
    /\ \/ /\ Top.pc = "begin"
          /\ GuiStep(update_status(gui, [Top EXCEPT !.busy = TRUE],
                                   "Scanning network...", "update_busy"), fs)
       \/ /\ Top.pc = "update_busy"
          /\ GuiStep(Go(gui, [Top EXCEPT !.pc = "log"]), fs)
       \/ /\ Top.pc = "log"
          /\ \E devices \in GuiDeviceLists :
                GuiStep(Go([gui EXCEPT !.effects = Append(@, Effect("discover", Top)),
                                       !.tv_ip = IF Len(devices) = 1
                                                 THEN devices[1] ELSE @],
                           [Top EXCEPT !.ok = devices # <<>>, !.pc = "showresult"]),
                        fs)
       \/ /\ Top.pc = "showresult"
          /\ GuiStep(update_status(gui, Top, final_status(Top.ok), "update_ready"),
                     fs)
       \/ /\ Top.pc = "update_ready"
          /\ GuiStep(Return(gui), fs)

GuiIdle == gui = Window(<<>>, <<>>, <<>>)

UiIdle ==
    /\ VerifyIdle
    /\ GuiIdle

UsbIdle ==
    /\ usbOp = [called |-> FALSE, firmware_path |-> <<>>, usb_path |-> <<>>,
                result |-> FALSE, log |-> <<>>, summary |-> NoSummary,
                sameAsPrev |-> FALSE, prevResult |-> FALSE, prevClean |-> FALSE]
    /\ fsBefore = fs

FmtIdle ==
    /\ fmtOp = [called |-> FALSE, usb_path |-> <<>>, fs_type |-> "", confirm |-> "",
                result |-> "", log |-> "", volumeBefore |-> FreshVolume]
    /\ commands = <<>>
    /\ volume = FreshVolume

EmptyCache == [exists |-> TRUE, listing |-> <<>>]

FindReset ==
    /\ findOp = [called |-> FALSE, tv_model |-> <<>>, target_version |-> <<>>,
                 result |-> None, cacheBefore |-> cache,
                 sameAsPrev |-> FALSE, prevResult |-> None]
    /\ printed = NoGuidance
    /\ netRequests = 0

FindIdle ==
    /\ cache = EmptyCache
    /\ FindReset

SshIdle ==
    /\ helper = SSHHelper(<<>>)
    /\ sshOp = [called |-> FALSE, op |-> "none", connect |-> "none", out |-> NoRun,
                probes |-> <<>>, runs |-> <<>>, result |-> None,
                raised |-> "none", log |-> "", helperBefore |-> SSHHelper(<<>>)]

NoLan ==
    [mdns |-> [kind |-> "notfound", lines |-> <<>>],
     upnp |-> [kind |-> "notfound", lines |-> <<>>],
     local |-> FALSE, reach |-> [i \in 1..LastCommon |-> "refused"]]

DiscReset ==
    discOp = [called |-> FALSE, mdns |-> <<>>, ports |-> <<>>, upnp |-> <<>>,
              raised |-> "none", result |-> <<>>]

DiscIdle ==
    /\ lan = NoLan
    /\ DiscReset

NoArgs ==
    [model |-> NotGiven, firmware |-> NotGiven, usb |-> NotGiven, ip |-> NotGiven,
     send_command |-> FALSE, find_firmware |-> FALSE, wizard |-> FALSE]

CliIdle ==
    cliOp = [pc |-> "start", args |-> NoArgs, wizard |-> FALSE, exit |-> "none",
             calls |-> <<>>, net |-> <<>>, firmware_path |-> None,
             tv_model |-> <<>>, target_firmware |-> <<>>, method |-> <<>>,
             tv_ip |-> <<>>, answer |-> <<>>]

NetIdle ==
    /\ SshIdle
    /\ sweep = SweepIdle
    /\ DiscIdle
    /\ CliIdle


(***************************************************************************)
(* Specifications, one per component                                       *)
(***************************************************************************)

InitDb ==
    /\ DbIdle
    /\ fs = FsOf([p \in {P_fw} |-> Dir])
    /\ UsbIdle
    /\ FmtIdle
    /\ UiIdle
    /\ FindIdle
    /\ system = "Linux"
    /\ NetIdle

NextDb ==
    \/ \E v \in Versions : check_firmware(v)
    \/ \E v \in Versions : call_recommend_firmware(v)

SpecDb == InitDb /\ [][NextDb]_vars

InitUsb ==
    /\ DbIdle
    /\ fs \in InitFilesystems
    /\ UsbIdle
    /\ FmtIdle
    /\ UiIdle
    /\ FindIdle
    /\ system = "Linux"
    /\ NetIdle

NextUsb ==
    \E firmware_path \in FirmwarePaths, usb_path \in UsbPaths :
        prepare_firmware(firmware_path, usb_path)

SpecUsb == InitUsb /\ [][NextUsb]_vars

InitFmt ==
    /\ DbIdle
    /\ fs = FsOf([p \in {P_fw} |-> Dir])
    /\ UsbIdle
    /\ FmtIdle
    /\ UiIdle
    /\ FindIdle
    /\ system \in Systems
    /\ NetIdle

NextFmt ==
    \E usb_path \in FormatTargets, fs_type \in FsTypes, confirm \in Confirmations :
        format_drive(usb_path, fs_type, confirm)

SpecFmt == InitFmt /\ [][NextFmt]_vars

InitFind ==
    /\ DbIdle
    /\ fs = FsOf([p \in {P_fw} |-> Dir])
    /\ UsbIdle
    /\ FmtIdle
    /\ UiIdle
    /\ cache \in {[exists |-> TRUE, listing |-> l] : l \in Listings}
                  \cup {[exists |-> FALSE, listing |-> <<>>]}
    /\ FindReset
    /\ system \in {"Linux", "Windows"}
    /\ NetIdle

NextFind ==
    \E tv_model \in TvModels, target_version \in TargetVersions :
        find_firmware(tv_model, target_version)

SpecFind == InitFind /\ [][NextFind]_vars

InitSsh ==
    /\ DbIdle
    /\ fs = FsOf([p \in {P_fw} |-> Dir])
    /\ UsbIdle
    /\ FmtIdle
    /\ UiIdle
    /\ FindIdle
    /\ system = "Linux"
    /\ \E tv_ip \in TvIps :
           /\ helper = SSHHelper(tv_ip)
           /\ sshOp = [called |-> FALSE, op |-> "none", connect |-> "none",
                       out |-> NoRun, probes |-> <<>>, runs |-> <<>>,
                       result |-> None, raised |-> "none", log |-> "",
                       helperBefore |-> SSHHelper(tv_ip)]
    /\ sweep = SweepIdle
    /\ DiscIdle
    /\ CliIdle

NextSsh ==
    \/ \E tv_ip \in TvIps : new_SSHHelper(tv_ip)
    \/ call_test_connection
    \/ call_send_software_update
    \/ call_send_expert_mode
    \/ call_get_firmware_info
    \/ call_check_developer_mode

SpecSsh == InitSsh /\ [][NextSsh]_vars

InitScan ==
    /\ DbIdle
    /\ fs = FsOf([p \in {P_fw} |-> Dir])
    /\ UsbIdle
    /\ FmtIdle
    /\ UiIdle
    /\ FindIdle
    /\ system = "Linux"
    /\ NetIdle

NextScan ==
    \/ \E kind \in SweepKinds : sweep_begin(kind)
    \/ sweep_probe
    \/ sweep_return

SpecScan == InitScan /\ [][NextScan]_vars

InitDisc ==
    /\ DbIdle
    /\ fs = FsOf([p \in {P_fw} |-> Dir])
    /\ UsbIdle
    /\ FmtIdle
    /\ UiIdle
    /\ FindIdle
    /\ system = "Linux"
    /\ SshIdle
    /\ sweep = SweepIdle
    /\ lan \in Lans
    /\ DiscReset
    /\ CliIdle

NextDisc == discover

SpecDisc == InitDisc /\ [][NextDisc]_vars

InitCli ==
    /\ DbIdle
    /\ \E host \in CliHosts :
           /\ fs = host.fs
           /\ cache = host.cache
    /\ UsbIdle
    /\ FmtIdle
    /\ UiIdle
    /\ FindReset
    /\ system = "Linux"
    /\ NetIdle

NextCli ==
    \/ \E args \in ArgSets : main(args)
    \/ \E text \in TypedModels : answer_model(text)
    \/ \E text \in TypedFirmwares : answer_firmware(text)
    \/ \E text \in TypedChoices : answer_choice(text)
    \/ \E text \in TypedIps : answer_ip(text)
    \/ \E text \in TypedUsbPaths : answer_usb(text)
    \/ \E text \in TypedSends : answer_send(text)

SpecCli == InitCli /\ [][NextCli]_vars

InitVerify ==
    /\ DbIdle
    /\ fs = FsOf([p \in {P_fw} |-> Dir])
    /\ UsbIdle
    /\ FmtIdle
    /\ FindIdle
    /\ system = "Linux"
    /\ NetIdle
    /\ VerifyIdle
    /\ GuiIdle

NextVerify ==
    \E name \in VerifyNames, node \in VerifyNodes : call_verify_firmware(name, node)

SpecVerify == InitVerify /\ [][NextVerify]_vars

\* the window opened on a host with the firmware file and the volume, the
\* fields filled in or left empty
InitGui ==
    /\ DbIdle
    /\ fs = FsOf([p \in {P_fw, P_src, P_usb} |->
                    IF p = P_src THEN File(<<1>>) ELSE Dir])
    /\ UsbIdle
    /\ FmtIdle
    /\ FindIdle
    /\ system = "Linux"
    /\ NetIdle
    /\ VerifyIdle
    /\ \E firmware_path \in {<<>>, P_src}, usb_path \in {<<>>, P_usb},
          tv_ip \in {<<>>, TvIp} :
           gui = Window(firmware_path, usb_path, tv_ip)

NextGui ==
    \/ \E b \in Buttons : click(b)
    \/ mainloop
    \/ root_update
    \/ gui_prepare_usb
    \/ gui_test_connection
    \/ gui_send_software_update
    \/ gui_scan_network

SpecGui == InitGui /\ [][NextGui]_vars

(***************************************************************************)
(* Properties of the classifier                                            *)
(***************************************************************************)

RootableEntries ==
    UNION {Range(ROOTABLE_FIRMWARE[i]) : i \in 1..Len(ROOTABLE_FIRMWARE)}
PatchedEntries == Range(PATCHED_FIRMWARE)

\* a wildcarded table entry ends in x; its prefix is what precedes the x's
IsWildcard(e) == e # <<>> /\ e[Len(e)] = "x"
WildcardPrefix(e) ==
    LET keep == {i \in 0..Len(e) : i = 0 \/ e[i] # "x"}
        last == CHOOSE i \in keep : \A j \in keep : j <= i
    IN SubSeq(e, 1, last)
MatchesWildcard(v) ==
    \E e \in PatchedEntries : IsWildcard(e) /\ StartsWith(v, WildcardPrefix(e))

ExpectedClass(v) ==
    IF v \in RootableEntries THEN "rootable"
    ELSE IF v \in PatchedEntries \/ MatchesWildcard(v) THEN "patched"
    ELSE "unknown"

\* C1: every entry of the rootable table is classified rootable, every entry
\* of the patched table and every string matching the prefix of a wildcard
\* entry is classified patched, and every other version string is classified
\* unknown.
C1_Classification ==
    dbOp = "check_firmware" => classification = ExpectedClass(version)

\* C2: a version is classified patched only if it is literally a patched
\* entry or begins with the prefix of a wildcarded entry; a string that
\* merely extends 03.30.10 or 03.30.14 is not patched.
C2_PrefixOnlyForWildcards ==
    (dbOp = "check_firmware" /\ classification = "patched")
        => (version \in PatchedEntries \/ MatchesWildcard(version))

\* C3: for every version classified patched, recommend_firmware returns the
\* single hard-coded target 03.21.30.
C3_PatchedRecommendsTarget ==
    /\ (dbOp = "check_firmware" /\ classification = "patched")
           => recommended = V_03_21_30
    /\ (dbOp = "recommend_firmware" /\ Classify(version) = "patched")
           => recommended = V_03_21_30

C3_Witness ==
    /\ dbOp = "check_firmware"
    /\ version = V_03_30_10
    /\ classification = "patched"
    /\ recommended = V_03_21_30

(***************************************************************************)
(* Properties of the stager                                                *)
(***************************************************************************)

\* <volume>/LG_DTV and <volume>/LG_DTV/<basename of the source> of the last call
StagedDir == usbOp.usb_path \o <<"LG_DTV">>
StagedPath == StagedDir \o <<usbOp.firmware_path[Len(usbOp.firmware_path)]>>

\* where the copy lands: inside the destination when that was a directory
LandedPath ==
    IF IsDir(fsBefore, StagedPath)
    THEN StagedPath \o <<usbOp.firmware_path[Len(usbOp.firmware_path)]>>
    ELSE StagedPath

SourceExisted == IsFile(fsBefore, usbOp.firmware_path)
VolumeExisted == Exists(fsBefore, usbOp.usb_path)
VolumeWasDir == IsDir(fsBefore, usbOp.usb_path)

\* the file at p equals the source as it was when the call started
EqualsSource(p) ==
    /\ IsFile(fs, p)
    /\ IsFile(fsBefore, usbOp.firmware_path)
    /\ fs[p].data = fsBefore[usbOp.firmware_path].data

Logged(msg) == \E i \in 1..Len(usbOp.log) : usbOp.log[i].msg = msg
LoggedCause(causes) == \E i \in 1..Len(usbOp.log) : usbOp.log[i].cause \in causes

\* the call reported no error of the directory creation or of the copy
NoStageError ==
    /\ ~Logged("Failed to create LG_DTV folder")
    /\ ~Logged("Failed to copy firmware")

C5_FailsCleanly ==
    (usbOp.called /\ (~Exists(fsBefore, usbOp.firmware_path) \/ ~VolumeExisted))
        => (~usbOp.result /\ fs = fsBefore)

C5_Witness ==
    /\ usbOp.called
    /\ SourceExisted
    /\ ~VolumeExisted
    /\ ~usbOp.result
    /\ Logged("USB path not found")

C7_Frame ==
    usbOp.called =>
        /\ \A p \in DOMAIN fs \cup DOMAIN fsBefore :
               ~Under(p, StagedDir)
                   => /\ Exists(fs, p) <=> Exists(fsBefore, p)
                      /\ Exists(fs, p) => fs[p] = fsBefore[p]
        /\ Exists(fsBefore, usbOp.firmware_path)
               => /\ Exists(fs, usbOp.firmware_path)
                  /\ fs[usbOp.firmware_path] = fsBefore[usbOp.firmware_path]

C7_Witness ==
    /\ usbOp.called
    /\ usbOp.result
    /\ fs # fsBefore
    /\ Exists(fs, P_keep)
    /\ Exists(fs, P_old)

(***************************************************************************)
(* Properties of the format operation                                      *)
(***************************************************************************)

\* C8: unless the typed confirmation is exactly YES, format_drive runs no
\* unmount or format command, returns False and leaves the volume unchanged.
C8_NoFormatWithoutYes ==
    (fmtOp.called /\ fmtOp.confirm # "YES")
        => /\ commands = <<>>
           /\ fmtOp.result = "False"
           /\ volume = fmtOp.volumeBefore

C8_Witness ==
    /\ fmtOp.called
    /\ fmtOp.confirm = "yes"
    /\ system = "Linux"
    /\ fmtOp.result = "False"
    /\ fmtOp.log = "Format cancelled"
    /\ commands = <<>>

(***************************************************************************)
(* Properties of the firmware finder                                       *)
(***************************************************************************)

ListingBefore == findOp.cacheBefore.listing
EntriesBefore == Range(ListingBefore)

\* the entry is one the lookup's glob yields and its name holds, the case of
\* letters ignored, the target version directly followed by .epk
Matches(name, v) ==
    /\ InGlob(name, system)
    /\ Contains(Upper(name), Upper(v \o DotEpk))

\* the entry is one the lookup's glob yields and its name holds, the case of
\* letters ignored, the target version
HoldsVersion(name, v) ==
    /\ InGlob(name, system)
    /\ Contains(Upper(name), Upper(v))

\* the first entry of the listing that matches
FirstMatch(listing, v) ==
    LET hits == {i \in 1..Len(listing) : Matches(listing[i], v)}
    IN listing[CHOOSE i \in hits : \A j \in hits : i <= j]

\* C9: find_and_download returns the path of a matching file when the cache
\* holds one, and otherwise prints the manual-download guidance, returns None
\* and issues no network request.
C9_CachedOrGuidance ==
    findOp.called =>
        /\ netRequests = 0
        /\ IF \E n \in EntriesBefore : Matches(n, findOp.target_version)
           THEN /\ \E n \in EntriesBefore :
                       /\ Matches(n, findOp.target_version)
                       /\ findOp.result = CachePath(n)
                /\ ~printed.guidance
           ELSE /\ findOp.result = None
                /\ printed.guidance
                /\ printed.target_version = findOp.target_version

C9_Witness ==
    /\ findOp.called
    /\ findOp.target_version = V_03_21_30
    /\ Len(ListingBefore) = 2
    /\ \A n \in EntriesBefore : ~Matches(n, V_03_21_30)
    /\ findOp.result = None
    /\ printed.guidance

\* C10 as stated: an entry matches iff it is an .epk file whose name contains
\* the target version, case ignored; the lookup returns a path when there is
\* such an entry and None when there is none.
C10_MatchesIfNameHoldsVersion ==
    findOp.called =>
        (findOp.result # None
            <=> \E n \in EntriesBefore : HoldsVersion(n, findOp.target_version))

\* C10 amended: an entry matches iff the glob *.epk yields it and its name
\* contains, case ignored, the target version directly followed by .epk; the
\* lookup returns the path of the first such entry in directory order, and
\* None when there is none.
C10_MatchesVersionDotEpk ==
    findOp.called =>
        IF \E n \in EntriesBefore : Matches(n, findOp.target_version)
        THEN findOp.result
                 = CachePath(FirstMatch(ListingBefore, findOp.target_version))
        ELSE findOp.result = None

C10_Witness ==
    /\ findOp.called
    /\ findOp.target_version = V_4_X_X
    /\ Len(ListingBefore) = 2
    /\ ~Matches(ListingBefore[1], V_4_X_X)
    /\ ListingBefore[2] = V_4_x_x \o DotEpk
    /\ findOp.result = CachePath(V_4_x_x \o DotEpk)

(***************************************************************************)
(* C11  The cache lookup is idempotent and read-only: a call leaves the    *)
(* listing of the cache directory as it found it, and a call that asks for *)
(* the version the call before it asked for, of the same listing, returns  *)
(* what that call returned (the same path, or None both times).            *)
(***************************************************************************)
C11_LookupIdempotent ==
    findOp.called =>
        /\ cache.listing = findOp.cacheBefore.listing
        /\ findOp.result = check_cache(cache.listing, findOp.target_version, system)
        /\ findOp.sameAsPrev => findOp.result = findOp.prevResult

\* a second lookup of a version that a cache of two entries holds
C11_Witness ==
    /\ findOp.sameAsPrev
    /\ findOp.result # None
    /\ findOp.prevResult = findOp.result
    /\ Len(cache.listing) = 2

(***************************************************************************)
(* C12  test_connection returns True exactly when the TCP connect to       *)
(* (tv_ip, port) succeeded; when the port refuses, the connect times out,  *)
(* the address does not resolve or the socket fails otherwise it returns   *)
(* False, and it never raises.                                             *)
(***************************************************************************)
C12_ProbeResult ==
    (sshOp.called /\ sshOp.op = "test_connection") =>
        /\ sshOp.raised = "none"
        /\ sshOp.result \in {PyTrue, PyFalse}
        /\ sshOp.result = PyTrue <=> sshOp.connect = "connected"
        /\ Len(sshOp.probes) = 1
        /\ sshOp.probes[1].ip = helper.tv_ip
        /\ sshOp.probes[1].port = helper.port

\* a probe of an address that does not resolve came back False
C12_Witness ==
    /\ sshOp.called
    /\ sshOp.op = "test_connection"
    /\ sshOp.connect = "gaierror"
    /\ sshOp.result = PyFalse
    /\ sshOp.raised = "none"

(***************************************************************************)
(* C13  A remote command goes to an address only after a reachability      *)
(* probe of that address succeeded in the same invocation: every ssh run   *)
(* in the invocation's network trace has a successful probe of the same    *)
(* address before it.                                                      *)
(***************************************************************************)
C13_ProbeBeforeCommand ==
    \A k \in 1..Len(cliOp.net) :
        cliOp.net[k].kind = "ssh" =>
            \E j \in 1..(k - 1) :
                /\ cliOp.net[j].kind = "probe"
                /\ cliOp.net[j].ip = cliOp.net[k].ip
                /\ cliOp.net[j].ok

(***************************************************************************)
(* C14  A remote action runs the ssh client exactly once, whatever the run *)
(* comes to (status 0, non-zero status, timeout, no ssh executable), to    *)
(* the helper's address, and leaves the helper's attributes, which are     *)
(* tv_ip, port and user and nothing else, as they were.                    *)
(***************************************************************************)
C14_OneRunNoState ==
    (sshOp.called /\ sshOp.op \in RemoteActions) =>
        /\ Len(sshOp.runs) = 1
        /\ sshOp.runs[1].tool = "ssh"
        /\ sshOp.runs[1].host = helper.tv_ip
        /\ sshOp.runs[1].outcome = sshOp.out.kind
        /\ helper = sshOp.helperBefore
        /\ DOMAIN helper = {"tv_ip", "port", "user"}

\* an action whose run timed out, run once
C14_Witness ==
    /\ sshOp.called
    /\ sshOp.op = "send_expert_mode"
    /\ sshOp.out.kind = "timeout"
    /\ Len(sshOp.runs) = 1

(***************************************************************************)
(* C15  A remote action never raises; its result is truthy only when the   *)
(* ssh run exited with status 0, and when the run exits non-zero (which    *)
(* is also what an unreachable address gives), times out or finds no ssh   *)
(* client the result is None or False.                                     *)
(***************************************************************************)
C15_FalsyOnFailure ==
    (sshOp.called /\ sshOp.op \in RemoteActions) =>
        /\ sshOp.raised = "none"
        /\ Truthy(sshOp.result) => sshOp.out.kind = "ok"
        /\ sshOp.out.kind # "ok" => sshOp.result \in {None, PyFalse}
        /\ ~Truthy(sshOp.result) => sshOp.result \in {None, PyFalse}

\* a capturing action whose run exited non-zero returned None
C15_Witness ==
    /\ sshOp.called
    /\ sshOp.op = "get_firmware_info"
    /\ sshOp.out.kind = "nonzero"
    /\ sshOp.result = None
    /\ sshOp.raised = "none"

(***************************************************************************)
(* C16  No failure of an external tool (non-zero exit, timeout, missing    *)
(* executable) leaves the operation that ran the tool as an exception: a   *)
(* format returns True or False, and the helper's and the discovery's      *)
(* calls raise nothing.                                                    *)
(***************************************************************************)
C16_ToolFailuresSurfaced ==
    /\ fmtOp.called => fmtOp.result \in {"True", "False"}
    /\ sshOp.called => sshOp.raised = "none"
    /\ discOp.called => discOp.raised = "none"

(***************************************************************************)
(* C17  A sweep probes the host numbers 1, 2, ... of its range in that     *)
(* order, each once, whatever the earlier probes came to; it returns once  *)
(* the last number of the range is probed, and what it returns is the      *)
(* addresses whose probe connected.  (A sweep that cannot learn the local  *)
(* address has no range: it probes nothing and returns the empty list.)    *)
(***************************************************************************)
C17_SweepProbesAll ==
    LET n == Len(sweep.probes)
        last == IF sweep.kind = "scan_network" THEN LastHost ELSE LastCommon
        Connected(p) == p.outcome = "connected"
        hits == SelectSeq(sweep.probes, Connected)
    IN
    /\ \A k \in 1..n : sweep.probes[k].ip = HostIp(k)
    /\ sweep.pc = "loop" => n = sweep.i - 1 /\ n <= last
    /\ sweep.found = [k \in 1..Len(hits) |-> hits[k].ip]
    /\ sweep.pc = "done" =>
           /\ n = IF sweep.local THEN last ELSE 0
           /\ sweep.result = sweep.found

\* a finished scan_network whose first and third hosts connected and whose
\* second ended in a socket error
C17_Witness ==
    /\ sweep.pc = "done"
    /\ sweep.kind = "scan_network"
    /\ Len(sweep.probes) = LastHost
    /\ sweep.probes[1].outcome = "connected"
    /\ sweep.probes[2].outcome = "error"
    /\ sweep.probes[3].outcome = "connected"
    /\ sweep.result = <<HostIp(1), HostIp(3)>>

(***************************************************************************)
(* C18  discover returns a list that holds no address twice and whose      *)
(* elements are exactly the addresses the mDNS, port-scan and UPnP methods *)
(* found.                                                                  *)
(***************************************************************************)
C18_Deduplicated ==
    discOp.called =>
        /\ \A i, j \in 1..Len(discOp.result) :
               discOp.result[i] = discOp.result[j] => i = j
        /\ Range(discOp.result) =
               Range(discOp.mdns) \cup Range(discOp.ports) \cup Range(discOp.upnp)

\* every method found the first host, one of them another address too
C18_Witness ==
    /\ discOp.called
    /\ HostIp(1) \in Range(discOp.mdns)
    /\ HostIp(1) \in Range(discOp.ports)
    /\ HostIp(1) \in Range(discOp.upnp)
    /\ Len(discOp.result) = 2

\* the invocation went into the wizard
WizardRan == cliOp.calls # <<>> /\ cliOp.calls[1].op = "run_wizard"

\* the operations the invocation called, in order
Performed == [k \in 1..Len(cliOp.calls) |-> cliOp.calls[k].op]

\* an invocation that ended outside the wizard with --model and --firmware
Validated ==
    /\ cliOp.pc = "exit"
    /\ ~WizardRan
    /\ OptTruthy(cliOp.args.model)
    /\ OptTruthy(cliOp.args.firmware)

(***************************************************************************)
(* C19  main: when none of --usb, --send-command, --find-firmware is given *)
(* the wizard runs and main performs nothing else, whatever --model,       *)
(* --firmware and --ip hold; when one of them is given and --wizard is     *)
(* not, the wizard does not run.                                           *)
(***************************************************************************)
C19_WizardIffNoAction ==
    LET a == cliOp.args
        action_flag == a.usb # NotGiven \/ a.send_command \/ a.find_firmware
    IN
    cliOp.pc # "start" =>
        /\ ~action_flag => WizardRan /\ cliOp.exit # "1"
        /\ (action_flag /\ ~a.wizard) => ~WizardRan

C29_RecommendsRootableFixpoint ==
    dbOp = "recommend_firmware" =>
        /\ is_rootable(recommended)
        /\ recommended = IF is_rootable(version) THEN version ELSE V_03_21_30
        /\ recommend_firmware(recommended) = recommended

\* a version that is neither rootable nor patched was given the fallback
C29_Witness ==
    /\ dbOp = "recommend_firmware"
    /\ Classify(version) = "unknown"
    /\ recommended = V_03_21_30

(***************************************************************************)
(* C21  main with --model, --firmware and --usb <path>, with or without    *)
(* --find-firmware, on a host whose cache holds the firmware and whose     *)
(* volume is mounted: prepare_usb is called and the firmware file is at    *)
(* <usb>/LG_DTV/<filename> when main ends.                                 *)
(***************************************************************************)
C21_UsbStagesFirmware ==
    LET a == cliOp.args IN
    (/\ Validated
     /\ ~a.wizard
     /\ OptTruthy(a.usb)
     /\ IsFile(fs, P_cached03)
     /\ IsDir(fs, a.usb[1]))
        => /\ "prepare_usb" \in Range(Performed)
           /\ \E p \in {P_cached3, P_cached03} :
                  IsFile(fs, Join(LgDtvPath(a.usb[1]), Name(p)))

(***************************************************************************)
(* C22  main with only --ip <address> and --send-command sends the         *)
(* software-update command to that address.                                *)
(***************************************************************************)
C22_SendCommandAlone ==
    LET a == cliOp.args IN
    (/\ cliOp.pc = "exit"
     /\ a.send_command /\ OptTruthy(a.ip)
     /\ a.model = NotGiven /\ a.firmware = NotGiven /\ a.usb = NotGiven
     /\ ~a.find_firmware /\ ~a.wizard)
        => \E k \in 1..Len(cliOp.net) :
               cliOp.net[k].kind = "ssh" /\ cliOp.net[k].ip = a.ip[1]

\* the steps of the wizard's SSH method, in the order of the pipeline
SshPipeline ==
    <<"connect_tv", "find_firmware", "prepare_usb", "send_downgrade_command">>

\* the invocation is in, or ended in, the wizard's SSH method
InMethodSsh == WizardRan /\ cliOp.method = <<"3">>

(***************************************************************************)
(* C24  In a run of the wizard's SSH method the operations performed are   *)
(* an initial part of connect, find firmware, stage, send: none is         *)
(* performed unless the one before it was performed in the same run.       *)
(***************************************************************************)
C24_PipelineOrder ==
    InMethodSsh => StartsWith(SshPipeline, Tail(Performed))

\* the ssh runs of the invocation
SshRuns == {k \in 1..Len(cliOp.net) : cliOp.net[k].kind = "ssh"}

\* the conditions under which the wizard's SSH method sends the command
SendConditions ==
    /\ cliOp.tv_ip # <<>>
    /\ \E k \in 1..Len(cliOp.calls) :
           /\ cliOp.calls[k] = Call("connect_tv", cliOp.tv_ip, TRUE)
           /\ \E j \in (k + 1)..Len(cliOp.calls) :
                  cliOp.calls[j] = Call("find_firmware", <<>>, TRUE)
    /\ Lower(Strip(cliOp.answer)) = <<"y">>

(***************************************************************************)
(* C26  In the wizard the downgrade command is sent only in a run of the   *)
(* SSH method in which an address was entered, the connection test to it   *)
(* succeeded, the firmware was found and the last prompt was answered 'y'  *)
(* (blanks and case apart): then one ssh command goes to that address; in  *)
(* every other run none is issued.                                         *)
(***************************************************************************)
C26_SendOnlyWhenAllHold ==
    WizardRan =>
        /\ SshRuns # {} => /\ InMethodSsh
                           /\ SendConditions
                           /\ Cardinality(SshRuns) = 1
                           /\ \A k \in SshRuns : cliOp.net[k].ip = cliOp.tv_ip
        /\ (InMethodSsh /\ cliOp.pc = "exit" /\ SendConditions) => SshRuns # {}

\* a run of the SSH method that skipped the staging and sent the command on 'Y'
C26_Witness ==
    /\ InMethodSsh
    /\ cliOp.pc = "exit"
    /\ cliOp.answer = <<" ", "Y", " ">>
    /\ Performed = <<"run_wizard", "connect_tv", "find_firmware",
                     "send_downgrade_command">>
    /\ SshRuns # {}

\* the name ends in a dot and the letters e, p, k in either case, after a
\* stem that is not empty
HasEpkExtension(name) ==
    /\ Len(name) > 4
    /\ SubSeq(name, Len(name) - 3, Len(name)) \in
           {<<".", e, p, k>> : e \in {"e", "E"}, p \in {"p", "P"}, k \in {"k", "K"}}

(***************************************************************************)
(* C23  verify_firmware returns True iff the path exists, its extension is *)
(* '.epk' in either case and its size is at least 104857600 bytes, and     *)
(* False otherwise, whatever the file holds.                               *)
(***************************************************************************)
C23_VerifyIffEpkOfSize ==
    verifyOp.called =>
        (verifyOp.result <=> /\ verifyOp.node.kind # "absent"
                             /\ HasEpkExtension(verifyOp.name)
                             /\ verifyOp.node.st_size >= 104857600)

\* a file of exactly 100 MiB of zeros named fw.EPK was accepted
C23_Witness ==
    /\ verifyOp.called
    /\ verifyOp.result
    /\ verifyOp.name = <<"f", "w", ".", "E", "P", "K">>
    /\ verifyOp.node = [kind |-> "file", st_size |-> 104857600, content |-> "zeros"]

(***************************************************************************)
(* C25  In the window no callback of a button begins while another has     *)
(* begun and not returned: at most one callback is running.                *)
(***************************************************************************)
C25_NoOverlap == Len(gui.stack) <= 1

\* what the operations of the window did outside it
GuiEffects(op) == {k \in 1..Len(gui.effects) : gui.effects[k].op = op}

(***************************************************************************)
(* C27  The window calls prepare_firmware only with a firmware path and a  *)
(* USB path that are not empty and after a yes to the confirmation; it     *)
(* runs ssh only with an address that is not empty and after a yes; the    *)
(* filesystem is written only by such a call of prepare_firmware.          *)
(***************************************************************************)
C27_ConfirmationGates ==
    /\ \A k \in GuiEffects("prepare_firmware") :
           /\ gui.effects[k].firmware # <<>>
           /\ gui.effects[k].usb # <<>>
           /\ gui.effects[k].answer = "yes"
    /\ \A k \in GuiEffects("ssh") :
           /\ gui.effects[k].ip # <<>>
           /\ gui.effects[k].answer = "yes"
    /\ fs # fsBefore => GuiEffects("prepare_firmware") # {}

\* the volume was staged and the command was sent, each after a yes
C27_Witness ==
    /\ GuiEffects("prepare_firmware") # {}
    /\ GuiEffects("ssh") # {}
    /\ IsFile(fs, P_dest)

(***************************************************************************)
(* C28  The status bar reads 'Ready' whenever no callback is running; a    *)
(* run of an operation that set a busy status returned with 'Ready' set,   *)
(* whether it succeeded or failed, and a run that returned from its        *)
(* validation left the status as it found it.                              *)
(***************************************************************************)
C28_StatusReady ==
    /\ gui.stack = <<>> => gui.status = "Ready"
    /\ gui.last.busy => gui.last.exit = "Ready"
    /\ (gui.last.cb # "none" /\ ~gui.last.busy) => gui.last.exit = gui.last.entry

\* a staging that failed has returned, the window is idle again
C28_Witness ==
    /\ gui.stack = <<>>
    /\ gui.last.cb = "prepare_usb"
    /\ gui.last.busy
    /\ ~gui.last.ok
    /\ gui.status = "Ready"
====
